---------------------------- MODULE Spec2Model ----------------------------
(***************************************************************************)
(* Route-to-recommendation pipeline of AI-Travel-Assist:                   *)
(*   RouteOrchestrator.processRoute  (src/lib/distance-calculator.ts)      *)
(*   POIService                      (src/lib/poi-service.ts)              *)
(*   WeatherService                  (src/unnamed/part_001)                *)
(*   AIPOIFilter                     (src/lib/geocoding-service.ts)        *)
(*   InMemoryDatabase                (src/lib/database.ts)                 *)
(*                                                                         *)
(* Numbers.  TLC has integers only, so every JavaScript double is kept as  *)
(* a scaled integer:                                                       *)
(*   latitude/longitude  ticks of 0.00004 degree (TicksPerDegree = 25000); *)
(*                       with this tick no coordinate lies exactly on a    *)
(*                       toFixed(4) rounding boundary                      *)
(*   distances           metres                                            *)
(*   ratings             tenths                                            *)
(*   sub-scores          millionths (ScoreScale)                           *)
(*   aiScore             hundredths (the code rounds it to two decimals)   *)
(*   time                minutes                                           *)
(* Strings are TLA+ strings; the operators that look inside a string       *)
(* (toLowerCase, includes) work on its characters, given by Chars.         *)
(* An optional value is a sequence: <<>> when absent, <<v>> when present.  *)
(***************************************************************************)
EXTENDS Integers, Sequences, FiniteSets, TLC

(***************************************************************************)
(* Arithmetic helpers                                                      *)
(***************************************************************************)
\* NaN, the result of 0 / 0 and of arithmetic on NaN: a value no coordinate,
\* distance or time takes
NotANumber == 0 - (2 ^ 30)

\* undefined where a number is expected: the value of a property an object lacks
Undefined == 1 - (2 ^ 30)

Abs(x) == IF x < 0 THEN -x ELSE x

\* a / b for a >= 0 rounded to the nearest integer, as every operation on doubles is
\* rounded to the nearest value of the format
Round(a, b) == (2 * a + b) \div (2 * b)

Min(a, b) == IF a <= b THEN a ELSE b

Max(a, b) == IF a >= b THEN a ELSE b

\* a / b rounded towards zero, so that DivT(-a, b) = -DivT(a, b) as for a double
DivT(a, b) == IF a < 0 THEN -((-a) \div b) ELSE a \div b

\* a * b / c for a >= 0, computed without leaving 32 bits when (c-1)*b fits
MulDiv(a, b, c) == (a \div c) * b + (((a % c) * b) \div c)

RECURSIVE SqrtIter(_, _, _)
SqrtIter(n, lo, hi) ==
    IF lo >= hi THEN lo
    ELSE LET mid == (lo + hi + 1) \div 2
         IN  IF mid * mid <= n THEN SqrtIter(n, mid, hi)
                               ELSE SqrtIter(n, lo, mid - 1)

\* Math.sqrt on scaled integers: the integer square root, n < 2^31
Sqrt(n) == SqrtIter(n, 0, Min(n, 46340))

(***************************************************************************)
(* Geo math: DistanceCalculator (src/lib/distance-calculator.ts 1-58)      *)
(* Angles in radians are fixed-point: Rad9 is 10^-9 rad, Rad4 is 10^-4.    *)
(***************************************************************************)
TicksPerDegree == 25 * 1000

\* Earth's radius in kilometres
R == 6371

\* toRadians(d) / 2 in 10^-9 rad, d in ticks: pi / (360 * 25000) = 349.0659e-9
HalfRadians(d) == d * 349 + DivT(d * 659, 10000)

\* toRadians(d) in 10^-4 rad, d in ticks: pi / (180 * 25000) = 6.981317e-7
toRadians(d) == DivT(DivT(d, 100) * 6981, 10000)

\* Math.sin(x), x >= 0 in 10^-9 rad, result in 10^-9: x - x^3/6 + x^5/120
SinPos(x) ==
    LET x2 == ((x \div 100000) * (x \div 100000)) \div 10000  \* x^2 in 10^-4
        x3 == (x \div 10000) * x2                              \* x^3 in 10^-9
        x5 == MulDiv(x3, x2, 10000)
    IN  x - (x3 \div 6) + (x5 \div 120)

\* Math.sin is odd
Sin(x) == IF x < 0 THEN -SinPos(-x) ELSE SinPos(x)

\* Math.cos(x), x in 10^-4 rad, result in 10^-4: 1 - x^2/2 + x^4/24
Cos(x) ==
    LET x2 == (x * x) \div 10000
    IN  10000 - (x2 \div 2) + (((x2 * x2) \div 10000) \div 24)

\* Math.atan2(y, x) for y >= 0 in 10^-9 and x > 0 in 10^-4; result in 10^-9 rad:
\* t - t^3/3 + t^5/5 with t = y/x
Atan2(y, x) ==
    LET t  == MulDiv(y, 10000, x)
        t2 == ((t \div 100000) * (t \div 100000)) \div 10000
        t3 == (t \div 10000) * t2
        t5 == MulDiv(t3, t2, 10000)
    IN  t - (t3 \div 3) + (t5 \div 5)

\* sqrt(p^2 + q^2) for p, q >= 0 in 10^-9, rescaled so that the squares fit
Hypot(p, q) ==
    LET s == (Max(p, q) \div 30000) + 1
    IN  Sqrt((p \div s) * (p \div s) + (q \div s) * (q \div s)) * s

\* Math.sin(x) for 0 <= x <= pi on numbers of four decimals (x and the result in
\* 10^-4): the argument is reduced to [-pi/4, pi/4] as the library does
Sin4(x) ==
    IF x <= 7854 THEN Round(SinPos(x * 100000), 100000)
    ELSE IF x <= 23562 THEN Cos(x - 15708)
    ELSE Round(SinPos((31416 - x) * 100000), 100000)

\* Math.atan2(y, x) for y, x >= 0 in 10^-4, not both 0; the result in 10^-4 rad.
\* atan(t) = t - t^3/3 + t^5/5 for the smaller ratio t, and pi/2 - atan(t) when y > x
Atan4(y, x) ==
    LET t  == IF y <= x THEN Round(y * 10000, x) ELSE Round(x * 10000, y)
        t2 == Round(t * t, 10000)
        t3 == Round(t * t2, 10000)
        t5 == Round(t3 * t2, 10000)
        atan == t - Round(t3, 3) + Round(t5, 5)
    IN  IF y <= x THEN atan ELSE 15708 - atan

\* the series of Sin, Cos and Atan2 above hold for two points at most this far apart
\* in latitude and in longitude
SeriesRange == 10 * TicksPerDegree

\* DistanceCalculator.calculateDistance: the haversine formula; the result in metres.
\* For two points within SeriesRange the sines are small and are kept to nine
\* decimals.  For points further apart every value is a number of four decimals and
\* every product is rounded to the nearest such number, as a double is rounded to 53
\* bits: a can then exceed 1, Math.sqrt(1 - a) is NaN and so is the distance.
calculateDistance(lat1, lng1, lat2, lng2) ==
    IF Abs(lat2 - lat1) <= SeriesRange /\ Abs(lng2 - lng1) <= SeriesRange
    THEN
    LET sLat  == Sin(HalfRadians(lat2 - lat1))          \* Math.sin(dLat / 2)
        sLng  == Sin(HalfRadians(lng2 - lng1))          \* Math.sin(dLng / 2)
        cc    == Cos(toRadians(lat1)) * Cos(toRadians(lat2))
        \* Math.sqrt(a), a = sLat^2 + cos * cos * sLng^2
        sqrtA == Hypot(Abs(sLat), MulDiv(Abs(sLng), Sqrt(cc), 10000))
        \* Math.sqrt(1 - a) in 10^-4
        sqrtB == Sqrt(100000000 - (sqrtA \div 100000) * (sqrtA \div 100000))
        \* c = 2 * atan2(sqrt(a), sqrt(1 - a)), here c / 2 in 10^-9 rad
        halfC == Atan2(sqrtA, sqrtB)
    IN  \* R * c: 2 * 6371 km * 10^-9 = 12742 * 10^-9 m
        (((halfC \div 1000) * (2 * R)) \div 1000)
          + (((halfC % 1000) * (2 * R)) \div 1000000)
    ELSE
    LET sLat == Sin4(Abs(DivT(toRadians(lat2 - lat1), 2)))
        sLng == Sin4(Abs(DivT(toRadians(lng2 - lng1), 2)))
        cc   == Round(Cos(toRadians(lat1)) * Cos(toRadians(lat2)), 10000)
        a    == Round(sLat * sLat, 10000)
                  + Round(Round(cc * sLng, 10000) * sLng, 10000)
    IN  IF a > 10000 THEN NotANumber
        ELSE \* R * c, c / 2 in 10^-4 rad: 2 * 6371 km * 10^-4 = 12742 * 10^-1 m
             (Atan4(Sqrt(a * 10000), Sqrt((10000 - a) * 10000)) * (2 * R)) \div 10

(***************************************************************************)
(* Strings                                                                 *)
(***************************************************************************)
\* The characters of every string the code looks into
Chars(s) ==
    CASE s = "Restaurants" -> <<"R", "e", "s", "t", "a", "u", "r", "a", "n", "t", "s">>
      [] s = "Museums" -> <<"M", "u", "s", "e", "u", "m", "s">>
      [] s = "Parks" -> <<"P", "a", "r", "k", "s">>
      [] s = "Shopping" -> <<"S", "h", "o", "p", "p", "i", "n", "g">>
      [] s = "Historic Sites" -> <<"H", "i", "s", "t", "o", "r", "i", "c", " ", "S", "i", "t", "e",
             "s">>
      [] s = "Entertainment" -> <<"E", "n", "t", "e", "r", "t", "a", "i", "n", "m", "e", "n", "t">>
      [] s = "Outdoor Activities" -> <<"O", "u", "t", "d", "o", "o", "r", " ", "A", "c", "t", "i",
             "v", "i", "t", "i", "e", "s">>
      [] s = "Art Galleries" -> <<"A", "r", "t", " ", "G", "a", "l", "l", "e", "r", "i", "e", "s">>
      [] s = "Local Markets" -> <<"L", "o", "c", "a", "l", " ", "M", "a", "r", "k", "e", "t", "s">>
      [] s = "Scenic Views" -> <<"S", "c", "e", "n", "i", "c", " ", "V", "i", "e", "w", "s">>
      [] s = "Coffee Shops" -> <<"C", "o", "f", "f", "e", "e", " ", "S", "h", "o", "p", "s">>
      [] s = "Nightlife" -> <<"N", "i", "g", "h", "t", "l", "i", "f", "e">>
      [] s = "Other" -> <<"O", "t", "h", "e", "r">>
      [] s = "restaurant" -> <<"r", "e", "s", "t", "a", "u", "r", "a", "n", "t">>
      [] s = "food" -> <<"f", "o", "o", "d">>
      [] s = "cafe" -> <<"c", "a", "f", "e">>
      [] s = "museum" -> <<"m", "u", "s", "e", "u", "m">>
      [] s = "gallery" -> <<"g", "a", "l", "l", "e", "r", "y">>
      [] s = "park" -> <<"p", "a", "r", "k">>
      [] s = "shopping" -> <<"s", "h", "o", "p", "p", "i", "n", "g">>
      [] s = "store" -> <<"s", "t", "o", "r", "e">>
      [] s = "historic" -> <<"h", "i", "s", "t", "o", "r", "i", "c">>
      [] s = "monument" -> <<"m", "o", "n", "u", "m", "e", "n", "t">>
      [] s = "entertainment" -> <<"e", "n", "t", "e", "r", "t", "a", "i", "n", "m", "e", "n", "t">>
      [] s = "theater" -> <<"t", "h", "e", "a", "t", "e", "r">>
      [] s = "cinema" -> <<"c", "i", "n", "e", "m", "a">>
      [] s = "culture" -> <<"c", "u", "l", "t", "u", "r", "e">>
      [] s = "nature" -> <<"n", "a", "t", "u", "r", "e">>
      [] s = "history" -> <<"h", "i", "s", "t", "o", "r", "y">>
      [] s = "art" -> <<"a", "r", "t">>
      [] s = "outdoor" -> <<"o", "u", "t", "d", "o", "o", "r">>
      [] s = "dining" -> <<"d", "i", "n", "i", "n", "g">>
      [] s = "nightlife" -> <<"n", "i", "g", "h", "t", "l", "i", "f", "e">>
      [] s = "family" -> <<"f", "a", "m", "i", "l", "y">>
      [] s = "adventure" -> <<"a", "d", "v", "e", "n", "t", "u", "r", "e">>
      [] s = "relaxation" -> <<"r", "e", "l", "a", "x", "a", "t", "i", "o", "n">>
      [] s = "hiking" -> <<"h", "i", "k", "i", "n", "g">>
      [] s = "sports" -> <<"s", "p", "o", "r", "t", "s">>
      [] s = "heritage" -> <<"h", "e", "r", "i", "t", "a", "g", "e">>
      [] s = "coffee" -> <<"c", "o", "f", "f", "e", "e">>
      [] s = "scenic" -> <<"s", "c", "e", "n", "i", "c">>
      [] s = "garden" -> <<"g", "a", "r", "d", "e", "n">>
      [] s = "spa" -> <<"s", "p", "a">>
      [] s = "kids" -> <<"k", "i", "d", "s">>
      [] s = "children" -> <<"c", "h", "i", "l", "d", "r", "e", "n">>
      [] s = "playground" -> <<"p", "l", "a", "y", "g", "r", "o", "u", "n", "d">>
      [] s = "zoo" -> <<"z", "o", "o">>
      [] s = "business" -> <<"b", "u", "s", "i", "n", "e", "s", "s">>
      [] s = "conference" -> <<"c", "o", "n", "f", "e", "r", "e", "n", "c", "e">>
      [] s = "meeting" -> <<"m", "e", "e", "t", "i", "n", "g">>
      [] s = "hotel" -> <<"h", "o", "t", "e", "l">>
      [] s = "Italian restaurant" -> <<"I", "t", "a", "l", "i", "a", "n", " ", "r", "e", "s", "t",
             "a", "u", "r", "a", "n", "t">>
      [] s = "Art museum" -> <<"A", "r", "t", " ", "m", "u", "s", "e", "u", "m">>
      [] s = "Gas station" -> <<"G", "a", "s", " ", "s", "t", "a", "t", "i", "o", "n">>
      [] s = "$" -> <<"$">>
      [] s = "$$" -> <<"$", "$">>
      [] s = "$$$" -> <<"$", "$", "$">>
      [] s = "$$$$" -> <<"$", "$", "$", "$">>
      [] s = "$$$$$" -> <<"$", "$", "$", "$", "$">>
      [] s = "Cafe Roma" -> <<"C", "a", "f", "e", " ", "R", "o", "m", "a">>
      [] s = "cafe roma" -> <<"c", "a", "f", "e", " ", "r", "o", "m", "a">>
      [] s = "Cafe  Roma" -> <<"C", "a", "f", "e", " ", " ", "R", "o", "m", "a">>
      [] s = "City Museum" -> <<"C", "i", "t", "y", " ", "M", "u", "s", "e", "u", "m">>
      [] s = "Old Fort" -> <<"O", "l", "d", " ", "F", "o", "r", "t">>
      [] s = "Local Attraction" -> <<"L", "o", "c", "a", "l", " ", "A", "t", "t", "r", "a", "c",
             "t", "i", "o", "n">>
      [] s = "The Garden Bistro" -> <<"T", "h", "e", " ", "G", "a", "r", "d", "e", "n", " ", "B",
             "i", "s", "t", "r", "o">>
      [] s = "Mama's Kitchen" -> <<"M", "a", "m", "a", "'", "s", " ", "K", "i", "t", "c", "h", "e",
             "n">>
      [] s = "Riverside Grill" -> <<"R", "i", "v", "e", "r", "s", "i", "d", "e", " ", "G", "r",
             "i", "l", "l">>
      [] s = "Urban Spoon" -> <<"U", "r", "b", "a", "n", " ", "S", "p", "o", "o", "n">>
      [] s = "The Local Table" -> <<"T", "h", "e", " ", "L", "o", "c", "a", "l", " ", "T", "a",
             "b", "l", "e">>
      [] s = "Heritage Museum" -> <<"H", "e", "r", "i", "t", "a", "g", "e", " ", "M", "u", "s",
             "e", "u", "m">>
      [] s = "Art & Culture Center" -> <<"A", "r", "t", " ", "&", " ", "C", "u", "l", "t", "u",
             "r", "e", " ", "C", "e", "n", "t", "e", "r">>
      [] s = "History House" -> <<"H", "i", "s", "t", "o", "r", "y", " ", "H", "o", "u", "s", "e">>
      [] s = "Discovery Museum" -> <<"D", "i", "s", "c", "o", "v", "e", "r", "y", " ", "M", "u",
             "s", "e", "u", "m">>
      [] s = "Cultural Gallery" -> <<"C", "u", "l", "t", "u", "r", "a", "l", " ", "G", "a", "l",
             "l", "e", "r", "y">>
      [] s = "Central Park" -> <<"C", "e", "n", "t", "r", "a", "l", " ", "P", "a", "r", "k">>
      [] s = "Riverside Gardens" -> <<"R", "i", "v", "e", "r", "s", "i", "d", "e", " ", "G", "a",
             "r", "d", "e", "n", "s">>
      [] s = "Memorial Park" -> <<"M", "e", "m", "o", "r", "i", "a", "l", " ", "P", "a", "r", "k">>
      [] s = "Nature Reserve" -> <<"N", "a", "t", "u", "r", "e", " ", "R", "e", "s", "e", "r", "v",
             "e">>
      [] s = "Community Green" -> <<"C", "o", "m", "m", "u", "n", "i", "t", "y", " ", "G", "r",
             "e", "e", "n">>
      [] s = "Main Street Market" -> <<"M", "a", "i", "n", " ", "S", "t", "r", "e", "e", "t", " ",
             "M", "a", "r", "k", "e", "t">>
      [] s = "Artisan Quarter" -> <<"A", "r", "t", "i", "s", "a", "n", " ", "Q", "u", "a", "r",
             "t", "e", "r">>
      [] s = "The Shopping District" -> <<"T", "h", "e", " ", "S", "h", "o", "p", "p", "i", "n",
             "g", " ", "D", "i", "s", "t", "r", "i", "c", "t">>
      [] s = "Local Bazaar" -> <<"L", "o", "c", "a", "l", " ", "B", "a", "z", "a", "a", "r">>
      [] s = "Craft Corner" -> <<"C", "r", "a", "f", "t", " ", "C", "o", "r", "n", "e", "r">>
      [] s = "Old Town Hall" -> <<"O", "l", "d", " ", "T", "o", "w", "n", " ", "H", "a", "l", "l">>
      [] s = "Heritage Building" -> <<"H", "e", "r", "i", "t", "a", "g", "e", " ", "B", "u", "i",
             "l", "d", "i", "n", "g">>
      [] s = "Historic Church" -> <<"H", "i", "s", "t", "o", "r", "i", "c", " ", "C", "h", "u",
             "r", "c", "h">>
      [] s = "Monument Square" -> <<"M", "o", "n", "u", "m", "e", "n", "t", " ", "S", "q", "u",
             "a", "r", "e">>
      [] s = "Ancient Ruins" -> <<"A", "n", "c", "i", "e", "n", "t", " ", "R", "u", "i", "n", "s">>
      [] s = "The Grand Theater" -> <<"T", "h", "e", " ", "G", "r", "a", "n", "d", " ", "T", "h",
             "e", "a", "t", "e", "r">>
      [] s = "Cinema Complex" -> <<"C", "i", "n", "e", "m", "a", " ", "C", "o", "m", "p", "l", "e",
             "x">>
      [] s = "Live Music Venue" -> <<"L", "i", "v", "e", " ", "M", "u", "s", "i", "c", " ", "V",
             "e", "n", "u", "e">>
      [] s = "Comedy Club" -> <<"C", "o", "m", "e", "d", "y", " ", "C", "l", "u", "b">>
      [] s = "Arts Center" -> <<"A", "r", "t", "s", " ", "C", "e", "n", "t", "e", "r">>
      [] s = "A popular dining establishment offering delicious meals." -> <<"A", " ", "p", "o",
             "p", "u", "l", "a", "r", " ", "d", "i", "n", "i", "n", "g", " ", "e", "s", "t", "a",
             "b", "l", "i", "s", "h", "m", "e", "n", "t", " ", "o", "f", "f", "e", "r", "i", "n",
             "g", " ", "d", "e", "l", "i", "c", "i", "o", "u", "s", " ", "m", "e", "a", "l", "s",
             ".">>
      [] s = "A cozy spot perfect for coffee and light meals." -> <<"A", " ", "c", "o", "z", "y",
             " ", "s", "p", "o", "t", " ", "p", "e", "r", "f", "e", "c", "t", " ", "f", "o", "r",
             " ", "c", "o", "f", "f", "e", "e", " ", "a", "n", "d", " ", "l", "i", "g", "h", "t",
             " ", "m", "e", "a", "l", "s", ".">>
      [] s = "Explore fascinating exhibits and learn about local culture." -> <<"E", "x", "p", "l",
             "o", "r", "e", " ", "f", "a", "s", "c", "i", "n", "a", "t", "i", "n", "g", " ", "e",
             "x", "h", "i", "b", "i", "t", "s", " ", "a", "n", "d", " ", "l", "e", "a", "r", "n",
             " ", "a", "b", "o", "u", "t", " ", "l", "o", "c", "a", "l", " ", "c", "u", "l", "t",
             "u", "r", "e", ".">>
      [] s = "Beautiful outdoor space perfect for relaxation and activities." -> <<"B", "e", "a",
             "u", "t", "i", "f", "u", "l", " ", "o", "u", "t", "d", "o", "o", "r", " ", "s", "p",
             "a", "c", "e", " ", "p", "e", "r", "f", "e", "c", "t", " ", "f", "o", "r", " ", "r",
             "e", "l", "a", "x", "a", "t", "i", "o", "n", " ", "a", "n", "d", " ", "a", "c", "t",
             "i", "v", "i", "t", "i", "e", "s", ".">>
      [] s = "Great place to find unique items and local products." -> <<"G", "r", "e", "a", "t",
             " ", "p", "l", "a", "c", "e", " ", "t", "o", " ", "f", "i", "n", "d", " ", "u", "n",
             "i", "q", "u", "e", " ", "i", "t", "e", "m", "s", " ", "a", "n", "d", " ", "l", "o",
             "c", "a", "l", " ", "p", "r", "o", "d", "u", "c", "t", "s", ".">>
      [] s = "Discover the rich history and heritage of this area." -> <<"D", "i", "s", "c", "o",
             "v", "e", "r", " ", "t", "h", "e", " ", "r", "i", "c", "h", " ", "h", "i", "s", "t",
             "o", "r", "y", " ", "a", "n", "d", " ", "h", "e", "r", "i", "t", "a", "g", "e", " ",
             "o", "f", " ", "t", "h", "i", "s", " ", "a", "r", "e", "a", ".">>
      [] s = "Popular venue for entertainment and cultural experiences." -> <<"P", "o", "p", "u",
             "l", "a", "r", " ", "v", "e", "n", "u", "e", " ", "f", "o", "r", " ", "e", "n", "t",
             "e", "r", "t", "a", "i", "n", "m", "e", "n", "t", " ", "a", "n", "d", " ", "c", "u",
             "l", "t", "u", "r", "a", "l", " ", "e", "x", "p", "e", "r", "i", "e", "n", "c", "e",
             "s", ".">>
      [] s = "An interesting local attraction worth visiting." -> <<"A", "n", " ", "i", "n", "t",
             "e", "r", "e", "s", "t", "i", "n", "g", " ", "l", "o", "c", "a", "l", " ", "a", "t",
             "t", "r", "a", "c", "t", "i", "o", "n", " ", "w", "o", "r", "t", "h", " ", "v", "i",
             "s", "i", "t", "i", "n", "g", ".">>
      [] s = "A notable local business or attraction." -> <<"A", " ", "n", "o", "t", "a", "b", "l",
             "e", " ", "l", "o", "c", "a", "l", " ", "b", "u", "s", "i", "n", "e", "s", "s", " ",
             "o", "r", " ", "a", "t", "t", "r", "a", "c", "t", "i", "o", "n", ".">>
      [] s = "A beloved local dining spot known for fresh ingredients and authentic flavors." -> <<"A", " ", "b", "e", "l", "o", "v", "e", "d", " ", "l", "o", "c", "a", "l", " ", "d", "i", "n", "i", "n", "g", " ", "s", "p", "o", "t", " ", "k", "n", "o", "w", "n", " ", "f", "o", "r", " ", "f", "r", "e", "s", "h", " ", "i", "n", "g", "r", "e", "d", "i", "e", "n", "t", "s", " ", "a", "n", "d", " ", "a", "u", "t", "h", "e", "n", "t", "i", "c", " ", "f", "l", "a", "v", "o", "r", "s", ".">>
      [] s = "Explore fascinating exhibits showcasing local history and culture." -> <<"E", "x",
             "p", "l", "o", "r", "e", " ", "f", "a", "s", "c", "i", "n", "a", "t", "i", "n", "g",
             " ", "e", "x", "h", "i", "b", "i", "t", "s", " ", "s", "h", "o", "w", "c", "a", "s",
             "i", "n", "g", " ", "l", "o", "c", "a", "l", " ", "h", "i", "s", "t", "o", "r", "y",
             " ", "a", "n", "d", " ", "c", "u", "l", "t", "u", "r", "e", ".">>
      [] s = "Beautiful green space perfect for relaxation and outdoor activities." -> <<"B", "e",
             "a", "u", "t", "i", "f", "u", "l", " ", "g", "r", "e", "e", "n", " ", "s", "p", "a",
             "c", "e", " ", "p", "e", "r", "f", "e", "c", "t", " ", "f", "o", "r", " ", "r", "e",
             "l", "a", "x", "a", "t", "i", "o", "n", " ", "a", "n", "d", " ", "o", "u", "t", "d",
             "o", "o", "r", " ", "a", "c", "t", "i", "v", "i", "t", "i", "e", "s", ".">>
      [] s = "Discover unique local products and handcrafted items." -> <<"D", "i", "s", "c", "o",
             "v", "e", "r", " ", "u", "n", "i", "q", "u", "e", " ", "l", "o", "c", "a", "l", " ",
             "p", "r", "o", "d", "u", "c", "t", "s", " ", "a", "n", "d", " ", "h", "a", "n", "d",
             "c", "r", "a", "f", "t", "e", "d", " ", "i", "t", "e", "m", "s", ".">>
      [] s = "Step back in time and explore the rich heritage of this area." -> <<"S", "t", "e",
             "p", " ", "b", "a", "c", "k", " ", "i", "n", " ", "t", "i", "m", "e", " ", "a", "n",
             "d", " ", "e", "x", "p", "l", "o", "r", "e", " ", "t", "h", "e", " ", "r", "i", "c",
             "h", " ", "h", "e", "r", "i", "t", "a", "g", "e", " ", "o", "f", " ", "t", "h", "i",
             "s", " ", "a", "r", "e", "a", ".">>
      [] s = "Popular venue offering great entertainment and cultural experiences." -> <<"P", "o",
             "p", "u", "l", "a", "r", " ", "v", "e", "n", "u", "e", " ", "o", "f", "f", "e", "r",
             "i", "n", "g", " ", "g", "r", "e", "a", "t", " ", "e", "n", "t", "e", "r", "t", "a",
             "i", "n", "m", "e", "n", "t", " ", "a", "n", "d", " ", "c", "u", "l", "t", "u", "r",
             "a", "l", " ", "e", "x", "p", "e", "r", "i", "e", "n", "c", "e", "s", ".">>
      [] s = "Family-run trattoria with street food classics." -> <<"F", "a", "m", "i", "l", "y",
             "-", "r", "u", "n", " ", "t", "r", "a", "t", "t", "o", "r", "i", "a", " ", "w", "i",
             "t", "h", " ", "s", "t", "r", "e", "e", "t", " ", "f", "o", "o", "d", " ", "c", "l",
             "a", "s", "s", "i", "c", "s", ".">>
      [] s = "" -> <<>>

LowerChar(c) ==
    CASE c = "A" -> "a" [] c = "B" -> "b" [] c = "C" -> "c" [] c = "D" -> "d"
      [] c = "E" -> "e" [] c = "F" -> "f" [] c = "G" -> "g" [] c = "H" -> "h"
      [] c = "I" -> "i" [] c = "J" -> "j" [] c = "K" -> "k" [] c = "L" -> "l"
      [] c = "M" -> "m" [] c = "N" -> "n" [] c = "O" -> "o" [] c = "P" -> "p"
      [] c = "Q" -> "q" [] c = "R" -> "r" [] c = "S" -> "s" [] c = "T" -> "t"
      [] c = "U" -> "u" [] c = "V" -> "v" [] c = "W" -> "w" [] c = "X" -> "x"
      [] c = "Y" -> "y" [] c = "Z" -> "z" [] OTHER -> c

\* String.prototype.toLowerCase, on characters
toLowerCase(cs) == [i \in 1..Len(cs) |-> LowerChar(cs[i])]

\* String.prototype.includes, on characters
includes(hay, needle) ==
    \E i \in 0..(Len(hay) - Len(needle)) : SubSeq(hay, i + 1, i + Len(needle)) = needle

\* Math.random(): the k-th draw of the pseudo-random stream `seed`, in hundredths (0..99)
Random(seed, k) == (seed * 41 + k * 61 + k * k * 17 + 7) % 100

\* Math.floor(Math.random() * n)
RandomBelow(seed, k, n) == (Random(seed, k) * n) \div 100

\* database.generateId(): Math.random().toString(36).substring(2) + Date.now().toString(36),
\* a fresh identifier; n is the index of the draw that makes it
generateId(n) == "id" \o ToString(n)

(***************************************************************************)
(* POIService (src/lib/poi-service.ts)                                     *)
(*                                                                         *)
(* A POI is a record; website and phone keep only whether the string is    *)
(* there (the code only tests them), photos and openingHours their length, *)
(* and the display address is left out.  An absent string is "".           *)
(***************************************************************************)
SEARCH_RADIUS_KM == 10

MAX_RESULTS == 20

NewPOI(id, name, description, category, lat, lng, rating, priceLevel, photos, openingHours, website, phone, aiScore, distanceFromRoute) ==
    [id |-> id, name |-> name, description |-> description, category |-> category,
     location |-> [lat |-> lat, lng |-> lng],
     rating |-> rating, priceLevel |-> priceLevel,
     photos |-> photos, openingHours |-> openingHours,
     website |-> website, phone |-> phone,
     weather |-> <<>>, aiScore |-> aiScore,
     distanceFromRoute |-> distanceFromRoute, closestTo |-> ""]

\* The first entry of a key/value table whose key occurs in the text, else the default
\* (for (const [key, v] of Object.entries(table)) if (text.includes(key)) return v)
RECURSIVE FirstIncluded(_, _, _, _)
FirstIncluded(table, i, text, default) ==
    IF i > Len(table) THEN default
    ELSE IF includes(text, Chars(table[i][1])) THEN table[i][2]
    ELSE FirstIncluded(table, i + 1, text, default)

typeMap ==
    << <<"restaurant", "Restaurants">>, <<"food", "Restaurants">>, <<"cafe", "Restaurants">>,
       <<"museum", "Museums">>, <<"gallery", "Art Galleries">>, <<"park", "Parks">>,
       <<"shopping", "Shopping">>, <<"store", "Shopping">>,
       <<"historic", "Historic Sites">>, <<"monument", "Historic Sites">>,
       <<"entertainment", "Entertainment">>, <<"theater", "Entertainment">>,
       <<"cinema", "Entertainment">> >>

mapSerpTypeToCategory(type) ==
    IF type = "" THEN "Other"
    ELSE FirstIncluded(typeMap, 1, toLowerCase(Chars(type)), "Other")

mapSerpPriceLevel(price) ==
    IF price = "" THEN 2
    ELSE IF includes(Chars(price), Chars("$$$$$")) THEN 4
    ELSE IF includes(Chars(price), Chars("$$$$")) THEN 4
    ELSE IF includes(Chars(price), Chars("$$$")) THEN 3
    ELSE IF includes(Chars(price), Chars("$$")) THEN 2
    ELSE IF includes(Chars(price), Chars("$")) THEN 1
    ELSE 2

typeDescriptions ==
    << <<"restaurant", "A popular dining establishment offering delicious meals.">>,
       <<"cafe", "A cozy spot perfect for coffee and light meals.">>,
       <<"museum", "Explore fascinating exhibits and learn about local culture.">>,
       <<"park", "Beautiful outdoor space perfect for relaxation and activities.">>,
       <<"shopping", "Great place to find unique items and local products.">>,
       <<"historic", "Discover the rich history and heritage of this area.">>,
       <<"entertainment", "Popular venue for entertainment and cultural experiences.">> >>

generateDescriptionFromType(type) ==
    IF type = "" THEN "An interesting local attraction worth visiting."
    ELSE FirstIncluded(typeDescriptions, 1, toLowerCase(Chars(type)),
                       "A notable local business or attraction.")

\* Math.round((Math.random() * 2 + 3) * 10) / 10, in tenths: 3.0 to 5.0
generateRandomRating(seed, k) == (Random(seed, k) * 20 + 3000 + 50) \div 100

\* if (!result.title || !result.gps_coordinates) return
SerpKept(result) == result.title # "" /\ result.gps_coordinates # <<>>

\* The Math.random() draws one kept entry costs: database.generateId() when it has
\* no place_id, then generateRandomRating() when it has no rating
SerpDraws(result) ==
    (IF result.place_id = "" THEN 1 ELSE 0) + (IF result.rating = 0 THEN 1 ELSE 0)

\* One entry of data.local_results that parseSerpResponse keeps; k is the next draw
SerpPOI(result, seed, k) ==
    NewPOI("serp_" \o (IF result.place_id # "" THEN result.place_id ELSE generateId(k)),
           result.title,
           IF result.description # "" THEN result.description
                                      ELSE generateDescriptionFromType(result.type),
           mapSerpTypeToCategory(result.type),
           result.gps_coordinates[1].latitude, result.gps_coordinates[1].longitude,
           IF result.rating # 0 THEN result.rating
           ELSE generateRandomRating(seed, IF result.place_id = "" THEN k + 1 ELSE k),
           mapSerpPriceLevel(result.price),
           1,
           IF result.hours THEN 1 ELSE 0,
           result.website, result.phone,
           0, 0)

\* parseSerpResponse from entry j on
RECURSIVE parseSerpFrom(_, _, _, _)
parseSerpFrom(results, j, seed, k) ==
    IF j > Len(results) THEN <<>>
    ELSE IF ~SerpKept(results[j]) THEN parseSerpFrom(results, j + 1, seed, k)
    ELSE <<SerpPOI(results[j], seed, k)>>
         \o parseSerpFrom(results, j + 1, seed, k + SerpDraws(results[j]))

\* parseSerpResponse(data): data.local_results is <<>> when absent or empty
parseSerpResponse(data, seed, k) == parseSerpFrom(data.local_results, 1, seed, k)

RECURSIVE SerpDrawsFrom(_, _)
SerpDrawsFrom(results, j) ==
    IF j > Len(results) THEN 0
    ELSE (IF SerpKept(results[j]) THEN SerpDraws(results[j]) ELSE 0)
         + SerpDrawsFrom(results, j + 1)

mapOSMTagsToCategory(tags) ==
    IF tags.amenity = "restaurant" \/ tags.amenity = "cafe" \/ tags.amenity = "fast_food"
      THEN "Restaurants"
    ELSE IF tags.tourism = "museum" \/ tags.amenity = "arts_centre" THEN "Museums"
    ELSE IF tags.leisure = "park" \/ tags.leisure = "garden" THEN "Parks"
    ELSE IF tags.shop # "" THEN "Shopping"
    ELSE IF tags.historic # "" \/ tags.tourism = "attraction" THEN "Historic Sites"
    ELSE IF tags.amenity = "theatre" \/ tags.amenity = "cinema" THEN "Entertainment"
    ELSE "Other"

generateRealisticDescription(category) ==
    CASE category = "Restaurants" ->
           "A beloved local dining spot known for fresh ingredients and authentic flavors."
      [] category = "Museums" ->
           "Explore fascinating exhibits showcasing local history and culture."
      [] category = "Parks" ->
           "Beautiful green space perfect for relaxation and outdoor activities."
      [] category = "Shopping" -> "Discover unique local products and handcrafted items."
      [] category = "Historic Sites" ->
           "Step back in time and explore the rich heritage of this area."
      [] category = "Entertainment" ->
           "Popular venue offering great entertainment and cultural experiences."
      [] OTHER -> "An interesting local attraction worth visiting."

generateDescriptionFromTags(tags) ==
    IF tags.description # "" THEN tags.description
    ELSE generateRealisticDescription(mapOSMTagsToCategory(tags))

\* in tenths; Math.min(5.0, Math.round(rating * 10) / 10)
estimateRatingFromTags(tags) ==
    Min(50, 35 + (IF tags.website THEN 3 ELSE 0) + (IF tags.phone THEN 2 ELSE 0)
               + (IF tags.opening_hours THEN 2 ELSE 0)
               + (IF tags.wheelchair = "yes" THEN 3 ELSE 0))

estimatePriceLevelFromTags(tags, seed, k) ==
    IF tags.amenity = "fast_food" THEN 1
    ELSE IF tags.amenity = "cafe" THEN 2
    ELSE IF tags.amenity = "restaurant" THEN 3
    ELSE IF tags.tourism = "museum" THEN 2
    ELSE RandomBelow(seed, k, 3) + 2

\* element.lat || element.center?.lat: a latitude of 0 counts as absent, as in the code
OSMLat(element) ==
    IF element.lat # 0 THEN element.lat
    ELSE IF element.center # <<>> THEN element.center[1].lat ELSE 0

OSMLon(element) ==
    IF element.lon # 0 THEN element.lon
    ELSE IF element.center # <<>> THEN element.center[1].lon ELSE 0

\* if (!element.tags?.name) return; if (!lat || !lon) return
OSMKept(element) ==
    /\ element.tags # <<>>
    /\ element.tags[1].name # ""
    /\ OSMLat(element) # 0
    /\ OSMLon(element) # 0

OSMPOI(element, seed, k) ==
    LET tags == element.tags[1]
    IN  NewPOI("osm_" \o element.type \o "_" \o ToString(element.id),
               tags.name,
               generateDescriptionFromTags(tags),
               mapOSMTagsToCategory(tags),
               OSMLat(element), OSMLon(element),
               estimateRatingFromTags(tags),
               estimatePriceLevelFromTags(tags, seed, k),
               1,
               IF tags.opening_hours THEN 1 ELSE 0,
               tags.website, tags.phone,
               0, 0)

\* The draws one kept element costs: estimatePriceLevelFromTags draws unless a tag decides
OSMDraws(element) ==
    LET tags == element.tags[1]
    IN  IF tags.amenity \in {"fast_food", "cafe", "restaurant"} \/ tags.tourism = "museum"
          THEN 0 ELSE 1

RECURSIVE parseOverpassFrom(_, _, _, _)
parseOverpassFrom(elements, j, seed, k) ==
    IF j > Len(elements) THEN <<>>
    ELSE IF ~OSMKept(elements[j]) THEN parseOverpassFrom(elements, j + 1, seed, k)
    ELSE <<OSMPOI(elements[j], seed, k)>>
         \o parseOverpassFrom(elements, j + 1, seed, k + OSMDraws(elements[j]))

\* parseOverpassResponse(data): data.elements is <<>> when absent (data.elements?.forEach)
parseOverpassResponse(data, seed, k) == parseOverpassFrom(data.elements, 1, seed, k)

RECURSIVE OSMDrawsFrom(_, _)
OSMDrawsFrom(elements, j) ==
    IF j > Len(elements) THEN 0
    ELSE (IF OSMKept(elements[j]) THEN OSMDraws(elements[j]) ELSE 0)
         + OSMDrawsFrom(elements, j + 1)

\* searchFoursquareAPI: "not implemented", resolves to no POIs whatever it is given
searchFoursquareAPI(location, categories, radius) == <<>>

defaultTargetCategories ==
    <<"Restaurants", "Museums", "Parks", "Shopping", "Historic Sites", "Entertainment">>

realisticPOINames(category) ==
    CASE category = "Restaurants" ->
           <<"The Garden Bistro", "Mama's Kitchen", "Riverside Grill", "Urban Spoon",
             "The Local Table">>
      [] category = "Museums" ->
           <<"Heritage Museum", "Art & Culture Center", "History House", "Discovery Museum",
             "Cultural Gallery">>
      [] category = "Parks" ->
           <<"Central Park", "Riverside Gardens", "Memorial Park", "Nature Reserve",
             "Community Green">>
      [] category = "Shopping" ->
           <<"Main Street Market", "Artisan Quarter", "The Shopping District", "Local Bazaar",
             "Craft Corner">>
      [] category = "Historic Sites" ->
           <<"Old Town Hall", "Heritage Building", "Historic Church", "Monument Square",
             "Ancient Ruins">>
      [] category = "Entertainment" ->
           <<"The Grand Theater", "Cinema Complex", "Live Music Venue", "Comedy Club",
             "Arts Center">>
      [] OTHER -> <<"Local Attraction">>

generateRealisticPOIName(category, seed, k) ==
    LET categoryNames == realisticPOINames(category)
    IN  categoryNames[RandomBelow(seed, k, Len(categoryNames)) + 1]

realisticPriceLevels(category) ==
    CASE category = "Restaurants" -> <<2, 3, 4>>
      [] category = "Museums" -> <<1, 2>>
      [] category = "Parks" -> <<1>>
      [] category = "Shopping" -> <<2, 3, 4>>
      [] category = "Historic Sites" -> <<1, 2>>
      [] category = "Entertainment" -> <<2, 3>>
      [] OTHER -> <<2, 3>>

generateRealisticPriceLevel(category, seed, k) ==
    LET levels == realisticPriceLevels(category)
    IN  levels[RandomBelow(seed, k, Len(levels)) + 1]

\* the number of opening-hours lines generateRealisticOpeningHours returns
generateRealisticOpeningHours(category) ==
    CASE category = "Restaurants" -> 3
      [] category = "Museums" -> 2
      [] category = "Parks" -> 1
      [] category = "Shopping" -> 2
      [] category = "Historic Sites" -> 1
      [] category = "Entertainment" -> 2
      [] OTHER -> 1

\* The Math.random() draws of one mock POI, in the order of the object literal:
\* id, name, lat, lng, address (2), rating, priceLevel, website id, phone (3),
\* aiScore, distanceFromRoute
MockPOIDraws == 1 + 1 + 2 + 2 + 1 + 1 + 1 + 3 + 1 + 1

\* One POI of generateEnhancedMockPOIs; k is its first draw
MockPOI(location, category, seed, k) ==
    NewPOI(generateId(k),
           generateRealisticPOIName(category, seed, k + 1),
           generateRealisticDescription(category),
           category,
           \* location.lat + (Math.random() - 0.5) * 0.02: 0.0002 degree is 5 ticks
           location.lat + (Random(seed, k + 2) - 50) * 5,
           location.lng + (Random(seed, k + 3) - 50) * 5,
           generateRandomRating(seed, k + 6),
           generateRealisticPriceLevel(category, seed, k + 7),
           2,
           generateRealisticOpeningHours(category),
           TRUE, TRUE,
           Random(seed, k + 12),
           Random(seed, k + 13) * 50)

\* const poisInCategory = Math.floor(Math.random() * 4) + 2, the category's first draw
poisInCategory(seed, k) == RandomBelow(seed, k, 4) + 2

\* the POIs of one category, from the i-th on; k0 is the category's first draw
RECURSIVE MockCategoryFrom(_, _, _, _, _)
MockCategoryFrom(location, category, i, seed, k0) ==
    IF i >= poisInCategory(seed, k0) THEN <<>>
    ELSE <<MockPOI(location, category, seed, k0 + 1 + i * MockPOIDraws)>>
         \o MockCategoryFrom(location, category, i + 1, seed, k0)

\* the loop over targetCategories from the c-th on
RECURSIVE MockFrom(_, _, _, _, _)
MockFrom(location, targetCategories, c, seed, k) ==
    IF c > Len(targetCategories) THEN <<>>
    ELSE MockCategoryFrom(location, targetCategories[c], 0, seed, k)
         \o MockFrom(location, targetCategories, c + 1, seed,
                     k + 1 + poisInCategory(seed, k) * MockPOIDraws)

mockTargetCategories(categories) ==
    IF Len(categories) > 0 THEN categories ELSE defaultTargetCategories

generateEnhancedMockPOIs(location, categories, seed, k) ==
    MockFrom(location, mockTargetCategories(categories), 1, seed, k)

RECURSIVE MockDrawsFrom(_, _, _, _)
MockDrawsFrom(targetCategories, c, seed, k) ==
    IF c > Len(targetCategories) THEN 0
    ELSE LET n == 1 + poisInCategory(seed, k) * MockPOIDraws
         IN  n + MockDrawsFrom(targetCategories, c + 1, seed, k + n)

\* Number.prototype.toFixed(4) of a coordinate in ticks: the sign and the digits, as
\* an integer number of 0.0001; a negative value that rounds to zero prints "-0.0000"
toFixed4(x) == [negative |-> x < 0, digits |-> (4 * Abs(x) + 5) \div 10]

\* `${poi.name}_${poi.location.lat.toFixed(4)}_${poi.location.lng.toFixed(4)}`
DedupKey(poi) == <<poi.name, toFixed4(poi.location.lat), toFixed4(poi.location.lng)>>

RECURSIVE removeDuplicatesFrom(_, _, _)
removeDuplicatesFrom(pois, j, seen) ==
    IF j > Len(pois) THEN <<>>
    ELSE IF DedupKey(pois[j]) \in seen THEN removeDuplicatesFrom(pois, j + 1, seen)
    ELSE <<pois[j]>> \o removeDuplicatesFrom(pois, j + 1, seen \cup {DedupKey(pois[j])})

\* a deduplication in which the last occurrence of a key wins, for comparison with
\* removeDuplicatePOIs
RECURSIVE keepLastOccurrences(_)
keepLastOccurrences(pois) ==
    IF pois = <<>> THEN <<>>
    ELSE IF \E q \in 2..Len(pois) : DedupKey(pois[q]) = DedupKey(pois[1])
      THEN keepLastOccurrences(Tail(pois))
    ELSE <<pois[1]>> \o keepLastOccurrences(Tail(pois))

\* poi.location.lat.toFixed(4) and poi.location.lng.toFixed(4) in the callback of
\* removeDuplicatePOIs: a TypeError when the coordinate is undefined
toFixedThrows(pois) ==
    \E j \in 1..Len(pois) :
        pois[j].location.lat = Undefined \/ pois[j].location.lng = Undefined

removeDuplicatePOIs(pois) == removeDuplicatesFrom(pois, 1, {})

\* Array.prototype.slice(0, n)
slice(xs, n) == SubSeq(xs, 1, Min(n, Len(xs)))

(***************************************************************************)
(* WeatherService (src/unnamed/part_001)                                   *)
(* A snapshot is [temperature, condition, humidity, windSpeed, icon]; the  *)
(* icon is the code of the glyph.  The cache maps a key to <<>> or to      *)
(* <<[data, timestamp]>>, the timestamp in minutes.                        *)
(***************************************************************************)
\* WeatherService.CACHE_DURATION, in minutes
CACHE_DURATION == 30

\* Number.prototype.toFixed(2) of a coordinate in ticks, as for toFixed4; a value
\* on a rounding boundary (125 ticks modulo 250) is rounded away from zero
toFixed2(x) == [negative |-> x < 0, digits |-> (4 * Abs(x) + 500) \div 1000]

\* `${location.lat.toFixed(2)},${location.lng.toFixed(2)}`
cacheKey(location) == <<toFixed2(location.lat), toFixed2(location.lng)>>

\* iconMap[code] || "(default)": the glyph of a wttr.in weather code
getWeatherIcon(code) ==
    IF code = "113" THEN "sun"
    ELSE IF code = "116" THEN "sun behind cloud"
    ELSE IF code \in {"119", "122"} THEN "cloud"
    ELSE IF code \in {"143", "248", "260"} THEN "fog"
    ELSE IF code \in {"176", "263", "293", "353"} THEN "sun behind rain cloud"
    ELSE IF code \in {"179", "227", "323", "326", "329", "332", "335", "368"}
      THEN "cloud with snow"
    ELSE IF code \in {"230", "338", "371"} THEN "snowflake"
    ELSE IF code \in {"200", "386", "389", "392", "395"} THEN "thunder cloud and rain"
    ELSE IF code \in {"182", "185", "266", "281", "284", "296", "299", "302", "305", "308",
                      "311", "314", "317", "320", "350", "356", "359", "362", "365", "374",
                      "377"}
      THEN "cloud with rain"
    ELSE "sun behind small cloud"

\* a || b on optional values
OrElse(a, b) == IF a # <<>> THEN a ELSE b

OrElseString(a, b) == IF a # "" THEN a ELSE b

\* parseWttrResponse(data): current is data.current_condition?.[0] and weather is
\* data.weather?.[0], each <<>> when absent; a numeric string is kept as its number
parseWttrResponse(data) ==
    LET current == data.current_condition
        weather == data.weather
        cur(f)  == IF current = <<>> THEN <<>> ELSE current[1][f]
        wea(f)  == IF weather = <<>> THEN <<>> ELSE weather[1][f]
        curS(f) == IF current = <<>> THEN "" ELSE current[1][f]
        weaS(f) == IF weather = <<>> THEN "" ELSE weather[1][f]
    IN  [temperature |-> OrElse(cur("temp_C"), OrElse(wea("maxtempC"), <<20>>))[1],
         condition   |-> OrElseString(curS("weatherDesc"),
                                      OrElseString(weaS("hourlyWeatherDesc"), "Clear")),
         humidity    |-> OrElse(cur("humidity"), <<50>>)[1],
         windSpeed   |-> OrElse(cur("windspeedKmph"), <<10>>)[1],
         icon        |-> getWeatherIcon(OrElseString(curS("weatherCode"),
                                        OrElseString(weaS("hourlyWeatherCode"), "113")))]

mockConditions ==
    << [condition |-> "Clear", icon |-> "sun", tempRange |-> <<18, 28>>],
       [condition |-> "Partly Cloudy", icon |-> "sun behind cloud", tempRange |-> <<15, 25>>],
       [condition |-> "Cloudy", icon |-> "cloud", tempRange |-> <<12, 22>>],
       [condition |-> "Light Rain", icon |-> "sun behind rain cloud", tempRange |-> <<10, 20>>],
       [condition |-> "Sunny", icon |-> "sun with face", tempRange |-> <<20, 30>>] >>

\* a fallback that answers with one fixed snapshot that is no row of the table, for
\* comparison with generateMockWeatherData
unlistedWeatherData(location, seed, k) ==
    [temperature |-> 20, condition |-> "Unknown", humidity |-> 50, windSpeed |-> 10,
     icon |-> "thermometer"]

\* generateMockWeatherData(location): four draws, k the first
generateMockWeatherData(location, seed, k) ==
    LET randomCondition == mockConditions[RandomBelow(seed, k, Len(mockConditions)) + 1]
        lo == randomCondition.tempRange[1]
        hi == randomCondition.tempRange[2]
    IN  [temperature |-> ((Random(seed, k + 1) * (hi - lo)) \div 100) + lo,
         condition   |-> randomCondition.condition,
         humidity    |-> RandomBelow(seed, k + 2, 40) + 40,
         windSpeed   |-> RandomBelow(seed, k + 3, 20) + 5,
         icon        |-> randomCondition.icon]

\* conditionScores[weather.condition] || 0.5, in tenths
conditionScore(condition) ==
    CASE condition \in {"Clear", "Sunny"} -> 10
      [] condition = "Partly Cloudy" -> 9
      [] condition = "Cloudy" -> 7
      [] condition = "Overcast" -> 6
      [] condition = "Light Rain" -> 4
      [] condition = "Rain" -> 2
      [] condition \in {"Heavy Rain", "Thunderstorm"} -> 1
      [] condition = "Snow" -> 3
      [] OTHER -> 5

ScoreScale == 1000 * 1000

\* Math.max(0, Math.min(1, x)) on millionths
Clamp01(x) == Max(0, Min(ScoreScale, x))

\* getWeatherSuitabilityScore(weather), in millionths
getWeatherSuitabilityScore(weather) ==
    LET t == weather.temperature
        temperatureFactor ==
            IF t < 5 \/ t > 35 THEN 3
            ELSE IF t < 10 \/ t > 30 THEN 6
            ELSE IF t < 15 \/ t > 28 THEN 8
            ELSE 10
        windFactor ==
            IF weather.windSpeed > 40 THEN 3
            ELSE IF weather.windSpeed > 25 THEN 7
            ELSE 10
    IN  Clamp01(temperatureFactor * conditionScore(weather.condition) * windFactor * 1000)

(***************************************************************************)
(* AIPOIFilter (src/lib/geocoding-service.ts 136-610)                      *)
(* Sub-scores are in millionths, aiScore in hundredths.                    *)
(***************************************************************************)
getDefaultWeather ==
    [temperature |-> 20, condition |-> "Clear", humidity |-> 50, windSpeed |-> 10,
     icon |-> "sun"]

timeOfDayOf(hour) ==
    IF hour >= 6 /\ hour < 12 THEN "morning"
    ELSE IF hour >= 12 /\ hour < 17 THEN "afternoon"
    ELSE IF hour >= 17 /\ hour < 22 THEN "evening"
    ELSE "night"

\* month as Date.getMonth() gives it: 0 is January
seasonalityOf(month) ==
    IF month >= 2 /\ month <= 4 THEN "spring"
    ELSE IF month >= 5 /\ month <= 7 THEN "summer"
    ELSE IF month >= 8 /\ month <= 10 THEN "fall"
    ELSE "winter"

styleKeywords ==
    << <<"adventure", <<"outdoor", "hiking", "adventure", "sports", "nature">> >>,
       <<"cultural", <<"museum", "art", "history", "culture", "heritage">> >>,
       <<"relaxed", <<"coffee", "park", "scenic", "garden", "spa">> >>,
       <<"family", <<"family", "kids", "children", "playground", "zoo">> >>,
       <<"business", <<"business", "conference", "meeting", "hotel">> >> >>

RECURSIVE inferTravelStyleFrom(_, _)
inferTravelStyleFrom(preferences, i) ==
    IF i > Len(styleKeywords) THEN "relaxed"
    ELSE IF \E k \in 1..Len(styleKeywords[i][2]) : \E p \in 1..Len(preferences) :
              includes(toLowerCase(Chars(preferences[p])), Chars(styleKeywords[i][2][k]))
      THEN styleKeywords[i][1]
    ELSE inferTravelStyleFrom(preferences, i + 1)

inferTravelStyle(preferences) == inferTravelStyleFrom(preferences, 1)

\* routeInput.weather is <<>>: RouteInput declares no such field
buildFilteringCriteria(routeInput, hour, month) ==
    [userPreferences   |-> routeInput.preferences,
     weatherConditions |-> OrElse(routeInput.weather, <<getDefaultWeather>>)[1],
     timeOfDay         |-> timeOfDayOf(hour),
     seasonality       |-> seasonalityOf(month),
     travelStyle       |-> inferTravelStyle(routeInput.preferences)]

\* categoryWeatherSensitivity[poi.category] || 0.5, in tenths
categoryWeatherSensitivity(category) ==
    CASE category \in {"Parks", "Outdoor Activities"} -> 10
      [] category = "Scenic Views" -> 9
      [] category = "Local Markets" -> 8
      [] category \in {"Shopping", "Entertainment", "Coffee Shops"} -> 3
      [] category \in {"Museums", "Art Galleries"} -> 2
      [] category = "Restaurants" -> 4
      [] category = "Historic Sites" -> 6
      [] category = "Nightlife" -> 1
      [] OTHER -> 5

calculateWeatherSuitability(poi, weather) ==
    IF poi.weather = <<>> THEN 700000
    ELSE LET baseWeatherScore == getWeatherSuitabilityScore(weather)
             sensitivity == categoryWeatherSensitivity(poi.category)
         IN  ((sensitivity * baseWeatherScore) \div 10) + (10 - sensitivity) * 80000

semanticMappings ==
    << <<"food", {"Restaurants", "Coffee Shops", "Local Markets"}>>,
       <<"culture", {"Museums", "Art Galleries", "Historic Sites"}>>,
       <<"nature", {"Parks", "Scenic Views", "Outdoor Activities"}>>,
       <<"shopping", {"Shopping", "Local Markets"}>>,
       <<"entertainment", {"Entertainment", "Nightlife"}>>,
       <<"history", {"Historic Sites", "Museums"}>>,
       <<"art", {"Art Galleries", "Museums"}>>,
       <<"outdoor", {"Parks", "Outdoor Activities", "Scenic Views"}>>,
       <<"dining", {"Restaurants", "Coffee Shops"}>>,
       <<"nightlife", {"Nightlife", "Entertainment"}>>,
       <<"family", {"Parks", "Museums", "Entertainment"}>>,
       <<"adventure", {"Outdoor Activities", "Scenic Views"}>>,
       <<"relaxation", {"Parks", "Coffee Shops", "Scenic Views"}>> >>

\* a match that looks at the name and description before the concepts, for
\* comparison with calculateSemanticMatch
textBeforeConcepts(poi, preference) ==
    LET lowerPreference == toLowerCase(Chars(preference))
        searchText == toLowerCase(Chars(poi.name) \o <<" ">> \o Chars(poi.description))
    IN  IF includes(searchText, lowerPreference) THEN 5
        ELSE IF \E i \in 1..Len(semanticMappings) :
                  /\ \/ includes(lowerPreference, Chars(semanticMappings[i][1]))
                     \/ includes(Chars(semanticMappings[i][1]), lowerPreference)
                  /\ poi.category \in semanticMappings[i][2]
          THEN 7
        ELSE 0

\* in tenths: 7 for a semantic match, 5 when the name or description holds the tag
calculateSemanticMatch(poi, preference) ==
    LET lowerPreference == toLowerCase(Chars(preference))
        searchText == toLowerCase(Chars(poi.name) \o <<" ">> \o Chars(poi.description))
    IN  IF \E i \in 1..Len(semanticMappings) :
             /\ \/ includes(lowerPreference, Chars(semanticMappings[i][1]))
                \/ includes(Chars(semanticMappings[i][1]), lowerPreference)
             /\ poi.category \in semanticMappings[i][2]
          THEN 7
        ELSE IF includes(searchText, lowerPreference) THEN 5
        ELSE 0

\* the matchScore of calculatePreferenceMatch over preferences[i..], in tenths
RECURSIVE matchScoreFrom(_, _, _)
matchScoreFrom(poi, preferences, i) ==
    IF i > Len(preferences) THEN 0
    ELSE (IF includes(toLowerCase(Chars(poi.category)), toLowerCase(Chars(preferences[i])))
            THEN 10
            ELSE calculateSemanticMatch(poi, preferences[i]))
         + matchScoreFrom(poi, preferences, i + 1)

calculatePreferenceMatch(poi, preferences) ==
    IF Len(preferences) = 0 THEN 600000
    ELSE Min(ScoreScale, (matchScoreFrom(poi, preferences, 1) * 100000) \div Len(preferences))

\* timePreferences[timeOfDay][poi.category] || 0.5, in tenths
timePreference(timeOfDay, category) ==
    CASE timeOfDay = "morning" ->
           (CASE category = "Coffee Shops" -> 10 [] category = "Parks" -> 9
              [] category \in {"Museums", "Historic Sites"} -> 8
              [] category = "Restaurants" -> 6 [] category = "Shopping" -> 7
              [] category = "Nightlife" -> 1 [] OTHER -> 5)
      [] timeOfDay = "afternoon" ->
           (CASE category = "Restaurants" -> 10
              [] category \in {"Shopping", "Museums", "Art Galleries"} -> 9
              [] category \in {"Parks", "Local Markets"} -> 8
              [] category = "Coffee Shops" -> 7 [] category = "Nightlife" -> 2
              [] OTHER -> 5)
      [] timeOfDay = "evening" ->
           (CASE category = "Restaurants" -> 10 [] category = "Entertainment" -> 9
              [] category = "Nightlife" -> 8 [] category = "Scenic Views" -> 7
              [] category = "Coffee Shops" -> 6 [] category = "Shopping" -> 4
              [] category = "Museums" -> 3 [] OTHER -> 5)
      [] timeOfDay = "night" ->
           (CASE category = "Nightlife" -> 10 [] category = "Entertainment" -> 8
              [] category = "Restaurants" -> 6 [] category = "Coffee Shops" -> 3
              [] category \in {"Museums", "Shopping"} -> 1 [] category = "Parks" -> 2
              [] OTHER -> 5)

calculateTimeRelevance(poi, timeOfDay) == timePreference(timeOfDay, poi.category) * 100000

\* seasonalPreferences[season][poi.category] || 0.7, in tenths
seasonalPreference(season, category) ==
    CASE season = "spring" ->
           (CASE category = "Parks" -> 10
              [] category \in {"Outdoor Activities", "Scenic Views"} -> 9
              [] category \in {"Local Markets", "Restaurants"} -> 8
              [] category = "Museums" -> 7 [] OTHER -> 7)
      [] season = "summer" ->
           (CASE category \in {"Parks", "Outdoor Activities", "Scenic Views"} -> 10
              [] category \in {"Local Markets", "Restaurants"} -> 9
              [] category = "Entertainment" -> 8 [] OTHER -> 7)
      [] season = "fall" ->
           (CASE category = "Scenic Views" -> 10
              [] category \in {"Parks", "Museums", "Art Galleries"} -> 9
              [] category \in {"Historic Sites", "Coffee Shops"} -> 8 [] OTHER -> 7)
      [] season = "winter" ->
           (CASE category \in {"Museums", "Art Galleries"} -> 10
              [] category \in {"Shopping", "Restaurants", "Coffee Shops"} -> 9
              [] category = "Entertainment" -> 8 [] category = "Parks" -> 4
              [] category = "Outdoor Activities" -> 3 [] OTHER -> 7)

calculateSeasonalRelevance(poi, season) == seasonalPreference(season, poi.category) * 100000

calculatePopularityScore(poi) ==
    LET ratingPart == IF poi.rating # 0 THEN poi.rating * 12000 ELSE 300000
        pricePart ==
            IF poi.priceLevel # 0
              THEN (IF poi.priceLevel = 2 \/ poi.priceLevel = 3 THEN 200000 ELSE 140000)
              ELSE 140000
        bonusScore ==
            (IF poi.website THEN 300000 ELSE 0) + (IF poi.phone THEN 300000 ELSE 0)
            + (IF poi.photos > 1 THEN 200000 ELSE 0)
            + (IF poi.openingHours > 0 THEN 200000 ELSE 0)
    IN  Min(ScoreScale, ratingPart + pricePart + (Min(ScoreScale, bonusScore) \div 5))

calculateAccessibilityScore(poi) ==
    LET distancePenalty ==
            IF poi.distanceFromRoute # 0 THEN Min(300000, poi.distanceFromRoute * 100) ELSE 0
    IN  Clamp01(700000 - distancePenalty
                + (IF poi.phone THEN 100000 ELSE 0) + (IF poi.website THEN 100000 ELSE 0)
                + (IF poi.openingHours > 0 THEN 100000 ELSE 0))

\* weights that give preferences 0.35, for comparison with weights
unnormalizedWeights ==
    [weatherSuitability |-> 25, preferenceMatch |-> 35, timeRelevance |-> 15,
     seasonalRelevance |-> 10, popularityScore |-> 15, accessibilityScore |-> 5]

\* the weights of scorePOI, in hundredths
weights ==
    [weatherSuitability |-> 25, preferenceMatch |-> 30, timeRelevance |-> 15,
     seasonalRelevance |-> 10, popularityScore |-> 15, accessibilityScore |-> 5]

\* the reasons generateRecommendationReason joins into its sentence, in order
generateRecommendationReason(poi, scores, criteria) ==
    LET reasons ==
            (IF scores.weatherSuitability > 800000 THEN <<"perfect weather">>
             ELSE IF scores.weatherSuitability < 400000 THEN <<"indoor alternative">>
             ELSE <<>>)
         \o (IF scores.preferenceMatch > 800000 THEN <<"matches your interest">> ELSE <<>>)
         \o (IF scores.timeRelevance > 800000 THEN <<"ideal for the time">> ELSE <<>>)
         \o (IF scores.popularityScore > 800000 /\ poi.rating # 0 /\ poi.rating >= 45
               THEN <<"highly rated">> ELSE <<>>)
         \o (IF scores.seasonalRelevance > 800000 THEN <<"especially beautiful">> ELSE <<>>)
    IN  IF Len(reasons) = 0 THEN <<"interesting along your route">> ELSE reasons

scoreBreakdownOf(poi, criteria) ==
    [weatherSuitability |-> calculateWeatherSuitability(poi, criteria.weatherConditions),
     preferenceMatch    |-> calculatePreferenceMatch(poi, criteria.userPreferences),
     timeRelevance      |-> calculateTimeRelevance(poi, criteria.timeOfDay),
     seasonalRelevance  |-> calculateSeasonalRelevance(poi, criteria.seasonality),
     popularityScore    |-> calculatePopularityScore(poi),
     accessibilityScore |-> calculateAccessibilityScore(poi)]

\* the weighted sum of scorePOI, in 10^-8
weightedSum(b) ==
    b.weatherSuitability * weights.weatherSuitability
    + b.preferenceMatch * weights.preferenceMatch
    + b.timeRelevance * weights.timeRelevance
    + b.seasonalRelevance * weights.seasonalRelevance
    + b.popularityScore * weights.popularityScore
    + b.accessibilityScore * weights.accessibilityScore

\* { ...object, ...overrides }
Spread(object, overrides) ==
    [f \in DOMAIN object \cup DOMAIN overrides |->
        IF f \in DOMAIN overrides THEN overrides[f] ELSE object[f]]

\* scorePOI: { ...poi, aiScore: Math.round(aiScore * 100) / 100, scoreBreakdown, ... }
scorePOI(poi, criteria) ==
    LET b == scoreBreakdownOf(poi, criteria)
    IN  Spread(poi,
               [aiScore |-> (weightedSum(b) + (ScoreScale \div 2)) \div ScoreScale,
                scoreBreakdown |-> b,
                aiRecommendationReason |-> generateRecommendationReason(poi, b, criteria)])

\* an insertion that puts x in front of the elements of its own score, for
\* comparison with insertByScore
RECURSIVE insertBeforeEqual(_, _)
insertBeforeEqual(sorted, x) ==
    IF sorted = <<>> THEN <<x>>
    ELSE IF Head(sorted).aiScore > x.aiScore
      THEN <<Head(sorted)>> \o insertBeforeEqual(Tail(sorted), x)
    ELSE <<x>> \o sorted

\* Array.prototype.sort((a, b) => b.aiScore - a.aiScore): descending, and stable
\* (ECMAScript 2019): x goes behind every element that does not score less
RECURSIVE insertByScore(_, _)
insertByScore(sorted, x) ==
    IF sorted = <<>> THEN <<x>>
    ELSE IF Head(sorted).aiScore >= x.aiScore
      THEN <<Head(sorted)>> \o insertByScore(Tail(sorted), x)
    ELSE <<x>> \o sorted

\* no sort at all, for comparison with sortByScore
unsorted(xs) == xs

RECURSIVE sortByScoreFrom(_, _, _)
sortByScoreFrom(xs, j, sorted) ==
    IF j > Len(xs) THEN sorted
    ELSE sortByScoreFrom(xs, j + 1, insertByScore(sorted, xs[j]))

sortByScore(xs) == sortByScoreFrom(xs, 1, <<>>)

maxPerCategory == 3

\* the length at which applyDiversityFiltering stops (diversePOIs.length >= 15)
maxDiversePOIs == 15

\* how many of the POIs at the indexes idx are of the category
categoryCount(scoredPOIs, idx, category) ==
    Cardinality({k \in 1..Len(idx) : scoredPOIs[idx[k]].category = category})

\* tests that admit one more per category and that never stop, for comparison with
\* underCategoryLimit and limitReached
upToCategoryLimit(currentCount) == currentCount <= maxPerCategory

limitNeverReached(length) == FALSE

\* if (currentCount < maxPerCategory)
underCategoryLimit(currentCount) == currentCount < maxPerCategory

\* if (diversePOIs.length >= 15) break
limitReached(length) == length >= maxDiversePOIs

\* a walk that ends at the first POI it does not admit, for comparison with diversityWalk
RECURSIVE prefixWalk(_, _, _)
prefixWalk(scoredPOIs, j, idx) ==
    IF j > Len(scoredPOIs) \/ limitReached(Len(idx)) THEN idx
    ELSE IF underCategoryLimit(categoryCount(scoredPOIs, idx, scoredPOIs[j].category))
      THEN prefixWalk(scoredPOIs, j + 1, Append(idx, j))
    ELSE idx

\* The walk of applyDiversityFiltering from position j on; idx holds the positions
\* admitted so far.  Gives the positions admitted.
RECURSIVE diversityWalk(_, _, _)
diversityWalk(scoredPOIs, j, idx) ==
    IF j > Len(scoredPOIs) THEN idx
    ELSE LET currentCount == categoryCount(scoredPOIs, idx, scoredPOIs[j].category)
             next == IF underCategoryLimit(currentCount) THEN Append(idx, j) ELSE idx
         IN  IF limitReached(Len(next)) THEN next
             ELSE diversityWalk(scoredPOIs, j + 1, next)

applyDiversityFiltering(scoredPOIs) ==
    LET idx == diversityWalk(scoredPOIs, 1, <<>>)
    IN  [k \in 1..Len(idx) |-> scoredPOIs[idx[k]]]

\* for (const poi of pois) scoredPOIs.push(await this.scorePOI(poi, criteria))
scoreAll(pois, criteria) == [j \in 1..Len(pois) |-> scorePOI(pois[j], criteria)]

(***************************************************************************)
(* InMemoryDatabase (src/lib/database.ts).  The trips map is the set of    *)
(* its values; no two of them have the same id.                            *)
(***************************************************************************)
\* this.trips.set(tripPlan.id, tripPlan)
\* a store that forgets the plan, for comparison with saveTripPlan
dropTripPlan(tripsMap, tripPlan) == tripsMap

saveTripPlan(tripsMap, tripPlan) ==
    {t \in tripsMap : t.id # tripPlan.id} \cup {tripPlan}

\* this.store.trips.get(id) || null, as <<>> or <<the plan>>
getTripPlan(tripsMap, id) ==
    IF \E t \in tripsMap : t.id = id
      THEN <<CHOOSE t \in tripsMap : t.id = id>>
      ELSE <<>>

\* Array.from(this.store.trips.values())
getAllTrips(tripsMap) == tripsMap

\* a delete that empties the map, for comparison with deleteTripPlan
clearTrips(tripsMap, id) == {}

\* this.store.trips.delete(id)
deleteTripPlan(tripsMap, id) == {t \in tripsMap : t.id # id}

(***************************************************************************)
(* RouteOrchestrator (src/lib/distance-calculator.ts 67-197)               *)
(***************************************************************************)
CHECKPOINT_INTERVAL_KM == 50

\* x <= y for two numbers: false when either of them is NaN
LessOrEqual(x, y) == x # NotANumber /\ y # NotANumber /\ x <= y

calculateDistanceToClosestPoint(poiLat, poiLng, originLat, originLng, destLat, destLng) ==
    LET distanceToOrigin == calculateDistance(poiLat, poiLng, originLat, originLng)
        distanceToDestination == calculateDistance(poiLat, poiLng, destLat, destLng)
    IN  IF LessOrEqual(distanceToOrigin, distanceToDestination)
          THEN [distance |-> distanceToOrigin, closestTo |-> "origin"]
          ELSE [distance |-> distanceToDestination, closestTo |-> "destination"]

\* RouteOrchestrator's private calculateDistance(from, to): the same haversine
RouteOrchestrator_calculateDistance(from, to) ==
    calculateDistance(from.lat, from.lng, to.lat, to.lng)

\* a count that may be a single checkpoint, for comparison with numberOfCheckpoints
singleCheckpointAllowed(distance) ==
    Max(1, distance \div (CHECKPOINT_INTERVAL_KM * 1000))

\* a count that rounds up, for comparison with numberOfCheckpoints
roundedUpCheckpoints(distance) ==
    Max(2, (distance + (CHECKPOINT_INTERVAL_KM * 1000) - 1) \div (CHECKPOINT_INTERVAL_KM * 1000))

\* Math.max(2, Math.floor(distance / CHECKPOINT_INTERVAL_KM)), the distance in metres
numberOfCheckpoints(distance) == Max(2, distance \div (CHECKPOINT_INTERVAL_KM * 1000))


\* the time value of a Date that is not a date: getTime() is NaN
InvalidDate == NotANumber

\* from + (to - from) * progress with progress = i / (n - 1); 0 / 0 is NaN
interpolate(from, to, i, n) ==
    IF n - 1 = 0 THEN NotANumber ELSE from + DivT((to - from) * i, n - 1)

\* progress * distance
distanceFromStart(distance, i, n) ==
    IF n - 1 = 0 THEN NotANumber ELSE (i * distance) \div (n - 1)

\* new Date(departureTime): an absent departureTime makes an invalid Date
departureDate(routeInput) ==
    IF "departureTime" \in DOMAIN routeInput THEN routeInput.departureTime
    ELSE InvalidDate

\* new Date(departureDate.getTime() + hours * 60 * 60 * 1000); NaN stays NaN
estimatedTime(departure, distance, i, n) ==
    IF departure = InvalidDate \/ n - 1 = 0 THEN InvalidDate
    ELSE departure + ((i * distance * 3) \div ((n - 1) * 4000))

\* The i-th checkpoint (i from 0) of n: progress is i / (n - 1); the estimated time
\* adds the minutes of progress * distance at 80 km/h
RouteCheckpoint(routeInput, distance, i, n) ==
    [location |->
        [lat |-> interpolate(routeInput.from.lat, routeInput.to.lat, i, n),
         lng |-> interpolate(routeInput.from.lng, routeInput.to.lng, i, n),
         address |-> "Checkpoint " \o ToString(i + 1)],
     distanceFromStart |-> distanceFromStart(distance, i, n),
     estimatedTime |-> estimatedTime(departureDate(routeInput), distance, i, n)]

generateRouteCheckpoints(routeInput) ==
    LET distance == RouteOrchestrator_calculateDistance(routeInput.from, routeInput.to)
        n == numberOfCheckpoints(distance)
    IN  [c \in 1..n |-> RouteCheckpoint(routeInput, distance, c - 1, n)]

\* a callback that leaves the weather out, for comparison with enrichPOI
enrichWithoutWeather(poi, weatherData, routeInput, checkpointIndex) ==
    LET distanceInfo == calculateDistanceToClosestPoint(
                            poi.location.lat, poi.location.lng,
                            routeInput.from.lat, routeInput.from.lng,
                            routeInput.to.lat, routeInput.to.lng)
    IN  Spread(poi, [distanceFromRoute |-> distanceInfo.distance,
                     closestTo |-> distanceInfo.closestTo,
                     foundAt |-> checkpointIndex])

\* The callback of poisNearCheckpoint.map in processRoute.  foundAt is a history
\* field the program does not have: the index of the checkpoint the POI was found at.
enrichPOI(poi, weatherData, routeInput, checkpointIndex) ==
    LET distanceInfo == calculateDistanceToClosestPoint(
                            poi.location.lat, poi.location.lng,
                            routeInput.from.lat, routeInput.from.lng,
                            routeInput.to.lat, routeInput.to.lng)
    IN  Spread(poi, [weather |-> <<weatherData>>,
                     distanceFromRoute |-> distanceInfo.distance,
                     closestTo |-> distanceInfo.closestTo,
                     foundAt |-> checkpointIndex])

enrichAll(pois, weatherData, routeInput, checkpointIndex) ==
    [j \in 1..Len(pois) |-> enrichPOI(pois[j], weatherData, routeInput, checkpointIndex)]

(***************************************************************************)
(* Exceptions.  A call either returns a value or throws; a catch block     *)
(* that only logs turns a throw into the normal continuation after it.     *)
(***************************************************************************)
Return(value) == [threw |-> FALSE, value |-> value]

Throw == [threw |-> TRUE, value |-> <<>>]

\* a catch block that throws the error on, for comparison with the two below
rethrowSourceError(result) == result

rethrowWeatherError(result) == result

\* catch (error) { console.warn("[v0] ... search failed:", error) } around each source
catchSourceError(result) == Return(<<>>)

\* catch (error) { console.warn("[v0] Weather API failed, using mock data:", error) }
catchWeatherError(result) == Return(<<>>)

(***************************************************************************)
(* The outside world: what one fetch() can do.  kind is "rejected" (the    *)
(* promise rejects), "http_error" (response.ok is false), "bad_json"       *)
(* (response.json() rejects) or "ok" (data is the parsed body).  The       *)
(* places a provider answers with lie around the location it was asked     *)
(* about; a record follows the provider's schema (coordinates, when        *)
(* present, are a pair of numbers) but may lack its title, its             *)
(* coordinates, its tags or its name.                                      *)
(***************************************************************************)
FetchFailures == {"rejected", "http_error", "bad_json"}

gpsAt(location, dLat, dLng) ==
    <<[latitude |-> location.lat + dLat, longitude |-> location.lng + dLng]>>

NoSerpData == [error |-> FALSE, local_results |-> <<>>]

SerpErrorData == [error |-> TRUE, local_results |-> <<>>]

\* A SerpApi answer: a complete record, one without place_id and rating, one without
\* title, one without coordinates, and a second record of the first place
serpPlaces(location) ==
    [error |-> FALSE,
     local_results |->
       << [title |-> "Cafe Roma", gps_coordinates |-> gpsAt(location, 10, 20),
           place_id |-> "p1",
           description |-> "Family-run trattoria with street food classics.",
           type |-> "Italian restaurant", rating |-> 45, price |-> "$$",
           hours |-> TRUE, website |-> TRUE, phone |-> TRUE],
          [title |-> "City Museum", gps_coordinates |-> gpsAt(location, -30, 40),
           place_id |-> "", description |-> "", type |-> "Art museum", rating |-> 0,
           price |-> "", hours |-> FALSE, website |-> FALSE, phone |-> FALSE],
          [title |-> "", gps_coordinates |-> gpsAt(location, 50, 50),
           place_id |-> "p3", description |-> "", type |-> "Gas station", rating |-> 40,
           price |-> "$", hours |-> FALSE, website |-> FALSE, phone |-> FALSE],
          [title |-> "Old Fort", gps_coordinates |-> <<>>,
           place_id |-> "p4", description |-> "", type |-> "", rating |-> 41,
           price |-> "", hours |-> FALSE, website |-> FALSE, phone |-> FALSE],
          [title |-> "Cafe Roma", gps_coordinates |-> gpsAt(location, 11, 20),
           place_id |-> "p5", description |-> "", type |-> "Italian restaurant",
           rating |-> 43, price |-> "$$$", hours |-> TRUE, website |-> FALSE,
           phone |-> FALSE] >>]

serpOutcomes(location) ==
    {[kind |-> f, data |-> NoSerpData] : f \in FetchFailures}
    \cup {[kind |-> "ok", data |-> d] : d \in {SerpErrorData, serpPlaces(location)}}

NoTags ==
    [name |-> "", description |-> "", amenity |-> "", tourism |-> "", leisure |-> "",
     shop |-> "", historic |-> "", opening_hours |-> FALSE, website |-> FALSE,
     phone |-> FALSE, wheelchair |-> ""]

NoOverpassData == [elements |-> <<>>]

\* An Overpass answer: the cafe SerpApi also knows, the same cafe with its name in
\* lower case and with a doubled blank, a way located by its center, and elements
\* without tags, without a name and without a position
overpassPlaces(location) ==
    [elements |->
       << [type |-> "node", id |-> 1, lat |-> location.lat + 11, lon |-> location.lng + 20,
           center |-> <<>>,
           tags |-> <<[NoTags EXCEPT !.name = "Cafe Roma", !.amenity = "cafe",
                                     !.opening_hours = TRUE]>>],
          [type |-> "node", id |-> 2, lat |-> location.lat + 10, lon |-> location.lng + 20,
           center |-> <<>>,
           tags |-> <<[NoTags EXCEPT !.name = "cafe roma", !.amenity = "cafe"]>>],
          [type |-> "way", id |-> 3, lat |-> 0, lon |-> 0,
           center |-> <<[lat |-> location.lat + 200, lon |-> location.lng - 100]>>,
           tags |-> <<[NoTags EXCEPT !.name = "Old Fort", !.historic = "castle",
                                     !.wheelchair = "yes"]>>],
          [type |-> "node", id |-> 4, lat |-> location.lat + 5, lon |-> location.lng + 5,
           center |-> <<>>, tags |-> <<>>],
          [type |-> "node", id |-> 5, lat |-> location.lat + 6, lon |-> location.lng + 6,
           center |-> <<>>, tags |-> <<[NoTags EXCEPT !.tourism = "museum"]>>],
          [type |-> "way", id |-> 6, lat |-> 0, lon |-> 0, center |-> <<>>,
           tags |-> <<[NoTags EXCEPT !.name = "City Museum", !.tourism = "museum"]>>],
          [type |-> "node", id |-> 7, lat |-> location.lat + 10, lon |-> location.lng + 20,
           center |-> <<>>,
           tags |-> <<[NoTags EXCEPT !.name = "Cafe  Roma", !.amenity = "cafe"]>>] >>]

overpassOutcomes(location) ==
    {[kind |-> f, data |-> NoOverpassData] : f \in FetchFailures}
    \cup {[kind |-> "ok", data |-> d] : d \in {NoOverpassData, overpassPlaces(location)}}

NoWttrData == [current_condition |-> <<>>, weather |-> <<>>]

\* a wttr.in answer: current conditions without a wind speed, and the day's forecast
wttrReports ==
    { [current_condition |->
         <<[temp_C |-> <<>>, weatherDesc |-> "Light Rain", humidity |-> <<85>>,
            windspeedKmph |-> <<>>, weatherCode |-> "296"]>>,
       weather |-> <<[maxtempC |-> <<9>>, hourlyWeatherDesc |-> "Rain",
                      hourlyWeatherCode |-> "308"]>>] }

wttrOutcomes ==
    {[kind |-> f, data |-> NoWttrData] : f \in FetchFailures}
    \cup {[kind |-> "ok", data |-> d] : d \in wttrReports}

(***************************************************************************)
(* The calls that fetch                                                    *)
(***************************************************************************)
\* searchSerpAPI: throws when the fetch fails, on !response.ok and on data.error
searchSerpAPI(outcome, seed, k) ==
    IF outcome.kind \in FetchFailures THEN Throw
    ELSE IF outcome.data.error THEN Throw
    ELSE Return(parseSerpResponse(outcome.data, seed, k))

\* searchOverpassAPI: throws when the fetch fails and on !response.ok
searchOverpassAPI(outcome, seed, k) ==
    IF outcome.kind \in FetchFailures THEN Throw
    ELSE Return(parseOverpassResponse(outcome.data, seed, k))

cacheGet(cache, key) == IF key \in DOMAIN cache THEN <<cache[key]>> ELSE <<>>

cacheSet(cache, key, entry) ==
    [c \in DOMAIN cache \cup {key} |-> IF c = key THEN entry ELSE cache[c]]

\* a test that still serves an entry that is exactly CACHE_DURATION old, for
\* comparison with isFresh
isFreshInclusive(cached, clock) ==
    cached # <<>> /\ clock - cached[1].timestamp <= CACHE_DURATION

\* cached && Date.now() - cached.timestamp < this.CACHE_DURATION
isFresh(cached, clock) ==
    cached # <<>> /\ clock - cached[1].timestamp < CACHE_DURATION

\* a getWeatherData that stores the snapshot it made up as well, for comparison with
\* getWeatherData
storingTheFallback(location, outcome, cache, clock, seed, k) ==
    LET key == cacheKey(location)
        cached == cacheGet(cache, key)
        mock == generateMockWeatherData(location, seed, k)
    IN  IF isFresh(cached, clock)
          THEN [threw |-> FALSE, value |-> cached[1].data, cache |-> cache,
                draws |-> 0, from |-> "cache"]
        ELSE IF outcome.kind = "ok"
          THEN [threw |-> FALSE, value |-> parseWttrResponse(outcome.data),
                cache |-> cacheSet(cache, key, [data |-> parseWttrResponse(outcome.data),
                                                timestamp |-> clock]),
                draws |-> 0, from |-> "api"]
        ELSE [threw |-> FALSE, value |-> mock,
              cache |-> cacheSet(cache, key, [data |-> mock, timestamp |-> clock]),
              draws |-> 4, from |-> "mock"]

\* getWeatherData(location) at time clock.  Gives whether it threw, the snapshot,
\* the cache afterwards, the number of draws made and where the snapshot is from.
getWeatherData(location, outcome, cache, clock, seed, k) ==
    LET key == cacheKey(location)
        cached == cacheGet(cache, key)
        \* the try block: the value is the parsed report, or <<>> on !response.ok
        attempt == IF outcome.kind \in {"rejected", "bad_json"} THEN Throw
                   ELSE IF outcome.kind = "ok"
                     THEN Return(<<parseWttrResponse(outcome.data)>>)
                   ELSE Return(<<>>)
        settled == IF attempt.threw THEN catchWeatherError(attempt) ELSE attempt
    IN  IF isFresh(cached, clock)
          THEN [threw |-> FALSE, value |-> cached[1].data, cache |-> cache,
                draws |-> 0, from |-> "cache"]
        ELSE IF settled.threw
          THEN [threw |-> TRUE, value |-> getDefaultWeather, cache |-> cache,
                draws |-> 0, from |-> "none"]
        ELSE IF settled.value # <<>>
          THEN [threw |-> FALSE, value |-> settled.value[1],
                cache |-> cacheSet(cache, key,
                                   [data |-> settled.value[1], timestamp |-> clock]),
                draws |-> 0, from |-> "api"]
        ELSE [threw |-> FALSE, value |-> generateMockWeatherData(location, seed, k),
              cache |-> cache, draws |-> 4, from |-> "mock"]

\* searchPOIsNearLocation(location, routeInput.preferences): categories: string[] = []
categoriesOrDefault(routeInput) ==
    IF "preferences" \in DOMAIN routeInput THEN routeInput.preferences ELSE <<>>

\* a test that never asks for the fallback, for comparison with needsFallback
neverFallback(pool) == FALSE

\* if (allPOIs.length === 0) in searchPOIsNearLocation
needsFallback(pool) == Len(pool) = 0

(***************************************************************************)
(* Bounds of the model and the inputs of a run                             *)
(***************************************************************************)
\* the number of Math.random() streams a run can see
NumStreams == 2

\* the number of times the clock advances during a run
MaxTicks == 1

\* one advance of the clock, in minutes
TickMinutes == CACHE_DURATION

\* the largest pool handed to the filter on its own
MaxPool == 20

Origin == [lat |-> 10 * TicksPerDegree, lng |-> 20 * TicksPerDegree]

\* the origin itself (a round trip) and a place one degree of longitude east
Destinations == {Origin, [Origin EXCEPT !.lng = 21 * TicksPerDegree]}

PreferenceLists == {<<>>, <<"Museums">>}

\* RouteInput has no weather field, so routeInput.weather is absent
RouteInputs ==
    {[from |-> Origin, to |-> d, departureTime |-> 600, preferences |-> p,
      weather |-> <<>>] : d \in Destinations, p \in PreferenceLists}

\* the hour and month new Date() can show when the filter runs
FilterTimes == {[hour |-> 9, month |-> 5], [hour |-> 20, month |-> 11]}

\* The JSON bodies POST /api/process-route can receive: a complete RouteInput with
\* any of from, to, departureTime and preferences left out
CompleteBody ==
    [from |-> Origin, to |-> [Origin EXCEPT !.lng = 21 * TicksPerDegree],
     departureTime |-> 600, preferences |-> <<>>, weather |-> <<>>]

RequestBodies ==
    {[f \in present \cup {"weather"} |-> CompleteBody[f]] :
        present \in SUBSET {"from", "to", "departureTime", "preferences"}}

\* a validation that forgets the departure time, for comparison with
\* missingRequiredFields
missingFromOrTo(body) ==
    \/ "from" \notin DOMAIN body
    \/ "to" \notin DOMAIN body

\* !routeInput.from || !routeInput.to || !routeInput.departureTime
missingRequiredFields(body) ==
    \/ "from" \notin DOMAIN body
    \/ "to" \notin DOMAIN body
    \/ "departureTime" \notin DOMAIN body

(***************************************************************************)
(* State                                                                   *)
(***************************************************************************)
VARIABLES
    pc,                 \* where processRoute is
    routeInput,         \* <<>> before the call, then <<the RouteInput>>
    tripId, checkpoints,
    cpIdx,              \* index of the checkpoint the loop is at
    weather,            \* <<>> or <<the snapshot of this checkpoint>>
    weatherCache,       \* WeatherService.weatherCache
    now,                \* Date.now(), minutes
    seed, draws,        \* the Math.random() stream and the number of draws made
    searchPOIs,         \* allPOIs of searchPOIsNearLocation
    sourcePOIs,         \* serpPOIs, osmPOIs, foursquarePOIs: <<>> or <<the list>>
    srcStatus,          \* per source: "pending", "ok" or "failed"
    mockPOIs,           \* <<>> or <<the fallback list>>
    poisNearCheckpoint, \* <<>> or <<what searchPOIsNearLocation returned>>
    allPOIs,            \* allPOIs of processRoute
    scoredPOIs,         \* scoredPOIs of filterAndRankPOIs, after the sort
    aiFilteredPOIs,
    tripPlan,           \* <<>> or <<the TripPlan returned>>
    trips,              \* InMemoryDatabase.trips
    history,            \* per checkpoint visited: its index, its snapshot, what failed
    isTracking,         \* the isTracking state of LocationTracker
    watchId, loading,   \* state of useGeolocation: watchId, and state.loading
    updateQueue,        \* the state updates made since the last render, in order
    rendered,           \* <<>> or <<the state the committed render has closed over>>
    effect,             \* <<>> or <<watch and watchId of the auto-start effect in place>>
    activeWatches,      \* the watch ids navigator.geolocation holds
    nextWatchId         \* the id the next watchPosition returns

vars == <<pc, routeInput, tripId, checkpoints, cpIdx, weather, weatherCache, now, seed,
          draws, searchPOIs, sourcePOIs, srcStatus, mockPOIs, poisNearCheckpoint,
          allPOIs, scoredPOIs, aiFilteredPOIs, tripPlan, trips, history, isTracking,
          watchId, loading, updateQueue, rendered, effect, activeWatches, nextWatchId>>

trackerVars == <<isTracking, watchId, loading, updateQueue, rendered, effect,
                 activeWatches, nextWatchId>>

\* useState<number | null>(null): null, as a number no watch id equals
null == 0

\* LocationTracker is not on the page
NoTracker ==
    /\ isTracking = FALSE
    /\ watchId = null
    /\ loading = FALSE
    /\ updateQueue = <<>>
    /\ rendered = <<>>
    /\ effect = <<>>
    /\ activeWatches = {}
    /\ nextWatchId = 1

routeVars == <<routeInput, tripId, checkpoints>>

searchVars == <<searchPOIs, sourcePOIs, srcStatus, mockPOIs, poisNearCheckpoint>>

outputVars == <<scoredPOIs, aiFilteredPOIs, tripPlan, trips>>

Sources == <<"serp", "osm", "foursquare">>

NoSourcePOIs == [serp |-> <<>>, osm |-> <<>>, foursquare |-> <<>>]

AllPending == [serp |-> "pending", osm |-> "pending", foursquare |-> "pending"]

Init ==
    /\ NoTracker
    /\ pc = "idle"
    /\ routeInput = <<>>
    /\ tripId = ""
    /\ checkpoints = <<>>
    /\ cpIdx = 0
    /\ weather = <<>>
    /\ weatherCache = <<>>
    /\ now = 0
    /\ seed \in 0..(NumStreams - 1)
    /\ draws = 0
    /\ searchPOIs = <<>>
    /\ sourcePOIs = NoSourcePOIs
    /\ srcStatus = AllPending
    /\ mockPOIs = <<>>
    /\ poisNearCheckpoint = <<>>
    /\ allPOIs = <<>>
    /\ scoredPOIs = <<>>
    /\ aiFilteredPOIs = <<>>
    /\ tripPlan = <<>>
    /\ trips = {}
    /\ history = <<>>

(***************************************************************************)
(* processRoute, one action per await                                      *)
(***************************************************************************)
\* an exception nothing catches rejects the promise of processRoute
Abort ==
    /\ pc' = "failed"
    /\ UNCHANGED <<routeVars, cpIdx, weather, weatherCache, now, seed, draws, searchVars,
                   allPOIs, outputVars, history, trackerVars>>

\* processRoute(input) up to the loop: tripId and the checkpoints
InvokeProcessRoute(input) ==
    /\ routeInput' = <<input>>
    /\ checkpoints' = generateRouteCheckpoints(input)
    /\ tripId' = generateId(draws)
    /\ draws' = draws + 1
    /\ cpIdx' = 1
    /\ allPOIs' = <<>>
    /\ pc' = "weather"
    /\ UNCHANGED <<weather, weatherCache, now, seed, searchVars, outputVars, history, trackerVars>>

\* a caller invokes processRoute with a complete RouteInput
Start ==
    /\ pc = "idle"
    /\ \E input \in RouteInputs : InvokeProcessRoute(input)

\* Time passes while processRoute waits.  Only differences of Date.now() are looked
\* at, so the clock starts with the first checkpoint and advances between checkpoints.
Tick ==
    /\ pc = "weather"
    /\ cpIdx > 1
    /\ now < MaxTicks * TickMinutes
    /\ now' = now + TickMinutes
    /\ UNCHANGED <<pc, routeVars, cpIdx, weather, weatherCache, seed, draws, searchVars,
                   allPOIs, outputVars, history, trackerVars>>

\* const weather = await weatherService.getWeatherData(checkpoint.location)
GetWeather ==
    /\ pc = "weather"
    /\ \E outcome \in wttrOutcomes :
         LET got == getWeatherData(checkpoints[cpIdx].location, outcome, weatherCache,
                                   now, seed, draws)
         IN  IF got.threw THEN Abort
             ELSE /\ weather' = <<got.value>>
                  /\ weatherCache' = got.cache
                  /\ draws' = draws + got.draws
                  /\ history' = Append(history, [checkpoint |-> cpIdx,
                                                 weather |-> got.value,
                                                 weatherFrom |-> got.from,
                                                 failedSources |-> {}])
                  /\ pc' = "serp"
                  /\ UNCHANGED <<routeVars, cpIdx, now, seed, searchVars, allPOIs,
                                 outputVars, trackerVars>>

\* One try block of searchPOIsNearLocation: result is what the source call did and
\* used the number of draws it made
SourceStep(source, result, used, nextPc) ==
    LET settled == IF result.threw THEN catchSourceError(result) ELSE result
    IN  IF settled.threw THEN Abort
        ELSE /\ searchPOIs' = IF result.threw THEN searchPOIs
                                              ELSE searchPOIs \o result.value
             /\ sourcePOIs' = [sourcePOIs EXCEPT
                                 ![source] = IF result.threw THEN <<>> ELSE <<result.value>>]
             /\ srcStatus' = [srcStatus EXCEPT
                                 ![source] = IF result.threw THEN "failed" ELSE "ok"]
             /\ draws' = draws + (IF result.threw THEN 0 ELSE used)
             /\ history' = [history EXCEPT ![Len(history)].failedSources =
                                 IF result.threw THEN @ \cup {source} ELSE @]
             /\ pc' = nextPc
             /\ UNCHANGED <<routeVars, cpIdx, weather, weatherCache, now, seed, mockPOIs,
                            poisNearCheckpoint, allPOIs, outputVars, trackerVars>>

\* try { serpPOIs = await this.searchSerpAPI(...); allPOIs.push(...serpPOIs) } catch
SearchSerp ==
    /\ pc = "serp"
    /\ \E outcome \in serpOutcomes(checkpoints[cpIdx].location) :
         SourceStep("serp", searchSerpAPI(outcome, seed, draws),
                    SerpDrawsFrom(outcome.data.local_results, 1), "osm")

\* try { osmPOIs = await this.searchOverpassAPI(...); allPOIs.push(...osmPOIs) } catch
SearchOverpass ==
    /\ pc = "osm"
    /\ \E outcome \in overpassOutcomes(checkpoints[cpIdx].location) :
         SourceStep("osm", searchOverpassAPI(outcome, seed, draws),
                    OSMDrawsFrom(outcome.data.elements, 1), "foursquare")

\* try { foursquarePOIs = await this.searchFoursquareAPI(...); ... } catch
SearchFoursquare ==
    /\ pc = "foursquare"
    /\ SourceStep("foursquare",
                  Return(searchFoursquareAPI(checkpoints[cpIdx].location,
                                             categoriesOrDefault(routeInput[1]),
                                             SEARCH_RADIUS_KM)),
                  0, "merge")

\* the rest of searchPOIsNearLocation: the fallback, removeDuplicatePOIs and slice.
\* It is outside the three try blocks, so an exception of removeDuplicatePOIs leaves
\* searchPOIsNearLocation and, uncaught in processRoute, processRoute
FinishSearch ==
    /\ pc = "merge"
    /\ LET location == checkpoints[cpIdx].location
           categories == categoriesOrDefault(routeInput[1])
           fallback == needsFallback(searchPOIs)
           mock == IF fallback
                     THEN generateEnhancedMockPOIs(location, categories, seed, draws)
                     ELSE <<>>
       IN  IF toFixedThrows(searchPOIs \o mock) THEN Abort
           ELSE /\ mockPOIs' = IF fallback THEN <<mock>> ELSE <<>>
                /\ searchPOIs' = searchPOIs \o mock
                /\ draws' = draws + (IF fallback
                                       THEN MockDrawsFrom(mockTargetCategories(categories),
                                                          1, seed, draws)
                                       ELSE 0)
                /\ poisNearCheckpoint' =
                      <<slice(removeDuplicatePOIs(searchPOIs'), MAX_RESULTS)>>
                /\ pc' = "enrich"
                /\ UNCHANGED <<routeVars, cpIdx, weather, weatherCache, now, seed,
                               sourcePOIs, srcStatus, allPOIs, outputVars, history, trackerVars>>

\* poisNearCheckpoint.map(...), allPOIs.push(...) and the next turn of the loop; the
\* locals of the search that returned are gone
Enrich ==
    /\ pc = "enrich"
    /\ allPOIs' = allPOIs \o enrichAll(poisNearCheckpoint[1], weather[1], routeInput[1],
                                       cpIdx)
    /\ searchPOIs' = <<>>
    /\ sourcePOIs' = NoSourcePOIs
    /\ srcStatus' = AllPending
    /\ mockPOIs' = <<>>
    /\ poisNearCheckpoint' = <<>>
    /\ weather' = <<>>
    /\ cpIdx' = cpIdx + 1
    /\ pc' = IF cpIdx < Len(checkpoints) THEN "weather" ELSE "filter"
    /\ UNCHANGED <<routeVars, weatherCache, now, seed, draws, outputVars, history, trackerVars>>

\* aiPOIFilter.filterAndRankPOIs(allPOIs, routeInput): score, sort, select
\* inferTravelStyle(routeInput.preferences) calls preferences.map: a TypeError when
\* the request had no preferences, and nothing in processRoute catches it
Filter ==
    /\ pc = "filter"
    /\ IF "preferences" \notin DOMAIN routeInput[1] THEN Abort
       ELSE /\ \E currentTime \in FilterTimes :
                 scoredPOIs' = sortByScore(scoreAll(allPOIs,
                                   buildFilteringCriteria(routeInput[1], currentTime.hour,
                                                          currentTime.month)))
            /\ aiFilteredPOIs' = applyDiversityFiltering(scoredPOIs')
            /\ pc' = "save"
            /\ UNCHANGED <<routeVars, cpIdx, weather, weatherCache, now, seed, draws,
                           searchVars, allPOIs, tripPlan, trips, history, trackerVars>>

\* a processRoute that stores the plan before the filter has run, for comparison
\* with Save
SaveUnfiltered ==
    /\ pc = "filter"
    /\ LET plan == [id |-> tripId, route |-> routeInput[1], checkpoints |-> checkpoints,
                    pois |-> allPOIs, createdAt |-> now, updatedAt |-> now]
       IN  /\ tripPlan' = <<plan>>
           /\ trips' = saveTripPlan(trips, plan)
    /\ pc' = "done"
    /\ UNCHANGED <<routeVars, cpIdx, weather, weatherCache, now, seed, draws, searchVars,
                   allPOIs, scoredPOIs, aiFilteredPOIs, history, trackerVars>>

\* the TripPlan, database.saveTripPlan(tripPlan) and the return
Save ==
    /\ pc = "save"
    /\ LET plan == [id |-> tripId, route |-> routeInput[1], checkpoints |-> checkpoints,
                    pois |-> aiFilteredPOIs, createdAt |-> now, updatedAt |-> now]
       IN  /\ tripPlan' = <<plan>>
           /\ trips' = saveTripPlan(trips, plan)
    /\ pc' = "done"
    /\ UNCHANGED <<routeVars, cpIdx, weather, weatherCache, now, seed, draws, searchVars,
                   allPOIs, scoredPOIs, aiFilteredPOIs, history, trackerVars>>

Next ==
    \/ Start
    \/ Tick
    \/ GetWeather
    \/ SearchSerp
    \/ SearchOverpass
    \/ SearchFoursquare
    \/ FinishSearch
    \/ Enrich
    \/ Filter
    \/ Save

Spec == Init /\ [][Next]_vars

(***************************************************************************)
(* The filter on its own: filterAndRankPOIs and the saving of the plan,    *)
(* started from pools of enriched POIs of every size up to MaxPool, of     *)
(* one, three or seven categories, in runs of one or five POIs of the      *)
(* same category, with equal or with varying ratings.                      *)
(***************************************************************************)
PoolCategories ==
    <<"Restaurants", "Museums", "Parks", "Shopping", "Historic Sites", "Entertainment",
      "Scenic Views">>

PoolInputs == {r \in RouteInputs : r.to # r.from}

PoolPOI(i, category, rating, input) ==
    enrichPOI(NewPOI("serp_pool" \o ToString(i), "Local Attraction",
                     generateRealisticDescription(category), category,
                     input.from.lat + 7 * i, input.from.lng + 3 * i,
                     rating, 2, 1, 1, TRUE, TRUE, 0, 0),
              getDefaultWeather, input, 1)

Pool(n, numCategories, run, ratingStep, input) ==
    [i \in 1..n |->
        PoolPOI(i, PoolCategories[(((i - 1) \div run) % numCategories) + 1],
                30 + ((i * ratingStep) % 21), input)]

InitFilter ==
    /\ NoTracker
    /\ pc = "filter"
    /\ \E input \in PoolInputs :
         /\ routeInput = <<input>>
         /\ checkpoints = generateRouteCheckpoints(input)
         /\ \E n \in 0..MaxPool, numCategories \in {1, 3, 7}, run \in {1, 5},
               ratingStep \in {0, 7} :
              allPOIs = Pool(n, numCategories, run, ratingStep, input)
    /\ tripId = generateId(0)
    /\ cpIdx = Len(checkpoints) + 1
    /\ weather = <<>>
    /\ weatherCache = <<>>
    /\ now = 0
    /\ seed = 0
    /\ draws = 1
    /\ searchPOIs = <<>>
    /\ sourcePOIs = NoSourcePOIs
    /\ srcStatus = AllPending
    /\ mockPOIs = <<>>
    /\ poisNearCheckpoint = <<>>
    /\ scoredPOIs = <<>>
    /\ aiFilteredPOIs = <<>>
    /\ tripPlan = <<>>
    /\ trips = {}
    /\ history = [c \in 1..Len(checkpoints) |->
                    [checkpoint |-> c, weather |-> getDefaultWeather,
                     weatherFrom |-> "api", failedSources |-> {}]]

NextFilter ==
    \/ Filter
    \/ Save

SpecFilter == InitFilter /\ [][NextFilter]_vars

(***************************************************************************)
(* POST /api/process-route: the handler receives a body, validates it,     *)
(* awaits processRoute and answers 200, 400 or 500                         *)
(***************************************************************************)
\* const routeInput: RouteInput = await request.json()
Receive ==
    /\ pc = "idle"
    /\ \E body \in RequestBodies : routeInput' = <<body>>
    /\ pc' = "received"
    /\ UNCHANGED <<tripId, checkpoints, cpIdx, weather, weatherCache, now, seed, draws,
                   searchVars, allPOIs, outputVars, history, trackerVars>>

\* the validation, and for a valid body the call of processRoute
Validate ==
    /\ pc = "received"
    /\ IF missingRequiredFields(routeInput[1])
         THEN /\ pc' = "status400"
              /\ UNCHANGED <<routeVars, cpIdx, weather, weatherCache, now, seed, draws,
                             searchVars, allPOIs, outputVars, history, trackerVars>>
       ELSE InvokeProcessRoute(routeInput[1])

\* return NextResponse.json(tripPlan)
Respond ==
    /\ pc = "done"
    /\ pc' = "status200"
    /\ UNCHANGED <<routeVars, cpIdx, weather, weatherCache, now, seed, draws, searchVars,
                   allPOIs, outputVars, history, trackerVars>>

\* catch (error) { ...; return NextResponse.json({ error: ... }, { status: 500 }) }
RespondError ==
    /\ pc = "failed"
    /\ pc' = "status500"
    /\ UNCHANGED <<routeVars, cpIdx, weather, weatherCache, now, seed, draws, searchVars,
                   allPOIs, outputVars, history, trackerVars>>

NextApi ==
    \/ Receive
    \/ Validate
    \/ Tick
    \/ GetWeather
    \/ SearchSerp
    \/ SearchOverpass
    \/ SearchFoursquare
    \/ FinishSearch
    \/ Enrich
    \/ Filter
    \/ Save
    \/ Respond
    \/ RespondError

SpecApi == Init /\ [][NextApi]_vars

(***************************************************************************)
(* The weather service on its own: any sequence of getWeatherData calls,   *)
(* at places of the same and of different cache buckets, while time        *)
(* passes in steps of a third of CACHE_DURATION.  cpIdx counts the calls   *)
(* and history holds the last call: where, when, what the fetch did, the   *)
(* age of the entry found in the cache (-1 when none) and what was         *)
(* returned.                                                               *)
(***************************************************************************)
\* the number of getWeatherData calls of a run
MaxCalls == 3

\* the number of times the clock advances between the calls of a run
MaxClockSteps == 4

ClockStep == CACHE_DURATION \div 3

\* 0.00496 degrees north of the origin rounds to the origin's bucket, 0.005 does not
WeatherLocations ==
    {Origin, [Origin EXCEPT !.lat = @ + 124], [Origin EXCEPT !.lat = @ + 125]}

InitWeather ==
    /\ NoTracker
    /\ pc = "calls"
    /\ routeInput = <<>>
    /\ tripId = ""
    /\ checkpoints = <<>>
    /\ cpIdx = 0
    /\ weather = <<>>
    /\ weatherCache = <<>>
    /\ now = 0
    /\ seed \in 0..(NumStreams - 1)
    /\ draws = 0
    /\ searchPOIs = <<>>
    /\ sourcePOIs = NoSourcePOIs
    /\ srcStatus = AllPending
    /\ mockPOIs = <<>>
    /\ poisNearCheckpoint = <<>>
    /\ allPOIs = <<>>
    /\ scoredPOIs = <<>>
    /\ aiFilteredPOIs = <<>>
    /\ tripPlan = <<>>
    /\ trips = {}
    /\ history = <<>>

\* Date.now() advances between two calls
PassTime ==
    /\ pc = "calls"
    /\ now < MaxClockSteps * ClockStep
    /\ now' = now + ClockStep
    /\ UNCHANGED <<pc, routeVars, cpIdx, weather, weatherCache, seed, draws, searchVars,
                   allPOIs, outputVars, history, trackerVars>>

\* await weatherService.getWeatherData(location), for any caller
CallWeather ==
    /\ pc = "calls"
    /\ cpIdx < MaxCalls
    /\ \E location \in WeatherLocations, outcome \in wttrOutcomes :
         LET cached == cacheGet(weatherCache, cacheKey(location))
             got == getWeatherData(location, outcome, weatherCache, now, seed, draws)
         IN  IF got.threw THEN Abort
             ELSE /\ weather' = <<got.value>>
                  /\ weatherCache' = got.cache
                  /\ draws' = draws + got.draws
                  /\ cpIdx' = cpIdx + 1
                  /\ history' = <<[location |-> location,
                                   at |-> now,
                                   age |-> IF cached = <<>> THEN -1
                                           ELSE now - cached[1].timestamp,
                                   fetch |-> IF got.from = "cache" THEN "none"
                                             ELSE outcome.kind,
                                   weather |-> got.value,
                                   weatherFrom |-> got.from]>>
                  /\ UNCHANGED <<pc, routeVars, now, seed, searchVars, allPOIs,
                                 outputVars, trackerVars>>

NextWeather ==
    \/ PassTime
    \/ CallWeather

SpecWeather == InitWeather /\ [][NextWeather]_vars

(***************************************************************************)
(* The checkpoint planner on its own: generateRouteCheckpoints applied to  *)
(* routes from three origins to places 0, 0.1, 0.5, 1, 1.4 and 5 degrees   *)
(* north or east and 3 degrees south or west of them: distances of 0, of   *)
(* less than one interval, of one to three intervals and of up to 780 km   *)
(***************************************************************************)
PlannerOrigins ==
    {[lat |-> 0, lng |-> 0], Origin,
     [lat |-> 0 - (33 * TicksPerDegree), lng |-> 151 * TicksPerDegree]}

PlannerOffsets ==
    {0, TicksPerDegree \div 10, TicksPerDegree \div 2, TicksPerDegree,
     (14 * TicksPerDegree) \div 10, 5 * TicksPerDegree, 0 - (3 * TicksPerDegree)}

PlannerInputs ==
    {[from |-> o, to |-> [lat |-> o.lat + north, lng |-> o.lng + east],
      departureTime |-> 600, preferences |-> <<>>, weather |-> <<>>] :
        o \in PlannerOrigins, north \in PlannerOffsets, east \in PlannerOffsets}

InitPlanner ==
    /\ NoTracker
    /\ pc = "planner"
    /\ \E input \in PlannerInputs : routeInput = <<input>>
    /\ tripId = ""
    /\ checkpoints = <<>>
    /\ cpIdx = 0
    /\ weather = <<>>
    /\ weatherCache = <<>>
    /\ now = 0
    /\ seed = 0
    /\ draws = 0
    /\ searchPOIs = <<>>
    /\ sourcePOIs = NoSourcePOIs
    /\ srcStatus = AllPending
    /\ mockPOIs = <<>>
    /\ poisNearCheckpoint = <<>>
    /\ allPOIs = <<>>
    /\ scoredPOIs = <<>>
    /\ aiFilteredPOIs = <<>>
    /\ tripPlan = <<>>
    /\ trips = {}
    /\ history = <<>>

\* const checkpoints = await this.generateRouteCheckpoints(routeInput)
Plan ==
    /\ pc = "planner"
    /\ checkpoints' = generateRouteCheckpoints(routeInput[1])
    /\ pc' = "planned"
    /\ UNCHANGED <<routeInput, tripId, cpIdx, weather, weatherCache, now, seed, draws,
                   searchVars, allPOIs, outputVars, history, trackerVars>>

NextPlanner == Plan

SpecPlanner == InitPlanner /\ [][NextPlanner]_vars

(***************************************************************************)
(* scorePOI on its own: one POI of every category of the taxonomy and of   *)
(* a category outside it, bare or with every detail, near the route or     *)
(* far from it, with or without a snapshot attached; scored under no, one  *)
(* or three preferences, in fair, stormy and hot weather, at every time    *)
(* of day in every season                                                  *)
(***************************************************************************)
Taxonomy ==
    {"Restaurants", "Museums", "Parks", "Shopping", "Historic Sites", "Entertainment",
     "Outdoor Activities", "Art Galleries", "Local Markets", "Scenic Views",
     "Coffee Shops", "Nightlife", "Other"}

\* rating (tenths), priceLevel, photos, openingHours, website, phone, metres off route
ScoreProfiles ==
    {<<0, 0, 0, 0, FALSE, FALSE, 0>>, <<50, 2, 2, 1, TRUE, TRUE, 0>>,
     <<10, 4, 1, 0, FALSE, TRUE, 25000>>, <<45, 1, 2, 1, TRUE, FALSE, 1500>>}

ScorePOIs ==
    {Spread(NewPOI("serp_1", "Heritage Museum",
                   "Explore fascinating exhibits and learn about local culture.",
                   category, Origin.lat, Origin.lng, profile[1], profile[2], profile[3],
                   profile[4], profile[5], profile[6], 0, profile[7]),
            [weather |-> attached]) :
        category \in Taxonomy \cup {"food"}, profile \in ScoreProfiles,
        attached \in {<<>>, <<getDefaultWeather>>}}

ScoreWeathers ==
    {<<>>,
     <<[temperature |-> 2, condition |-> "Thunderstorm", humidity |-> 95,
        windSpeed |-> 45, icon |-> "cloud with lightning"]>>,
     <<[temperature |-> 40, condition |-> "Haze", humidity |-> 10, windSpeed |-> 30,
        icon |-> "thermometer"]>>}

ScoreInputs ==
    {[from |-> Origin, to |-> [Origin EXCEPT !.lng = 21 * TicksPerDegree],
      departureTime |-> 600, preferences |-> p, weather |-> w] :
        p \in {<<>>, <<"Museums">>, <<"food", "art", "hiking">>}, w \in ScoreWeathers}

\* getHours() and getMonth() of currentTime: one of each time of day and season
ScoreHours == {3, 9, 14, 20}

ScoreMonths == {0, 3, 6, 9}

InitScore ==
    /\ NoTracker
    /\ pc = "score"
    /\ \E input \in ScoreInputs : routeInput = <<input>>
    /\ \E poi \in ScorePOIs : allPOIs = <<poi>>
    /\ tripId = ""
    /\ checkpoints = <<>>
    /\ cpIdx = 0
    /\ weather = <<>>
    /\ weatherCache = <<>>
    /\ now = 0
    /\ seed = 0
    /\ draws = 0
    /\ searchPOIs = <<>>
    /\ sourcePOIs = NoSourcePOIs
    /\ srcStatus = AllPending
    /\ mockPOIs = <<>>
    /\ poisNearCheckpoint = <<>>
    /\ scoredPOIs = <<>>
    /\ aiFilteredPOIs = <<>>
    /\ tripPlan = <<>>
    /\ trips = {}
    /\ history = <<>>

\* const scoredPOI = await this.scorePOI(poi, criteria)
ScoreOne ==
    /\ pc = "score"
    /\ \E hour \in ScoreHours, month \in ScoreMonths :
         scoredPOIs' = <<scorePOI(allPOIs[1],
                                  buildFilteringCriteria(routeInput[1], hour, month))>>
    /\ pc' = "scored"
    /\ UNCHANGED <<routeVars, cpIdx, weather, weatherCache, now, seed, draws, searchVars,
                   allPOIs, aiFilteredPOIs, tripPlan, trips, history, trackerVars>>

NextScore == ScoreOne

SpecScore == InitScore /\ [][NextScore]_vars

(***************************************************************************)
(* calculatePopularityScore on its own.  history holds the POI as its      *)
(* maker wrote it: rating and priceLevel are <<>> when the property is     *)
(* absent and <<value>> when it is there, the rating in tenths.  allPOIs   *)
(* holds the object the function reads; it tests poi.rating and            *)
(* poi.priceLevel for truthiness, which an absent property and the number  *)
(* 0 both fail.                                                            *)
(***************************************************************************)
PopularityRatings == {<<>>, <<0>>, <<1>>, <<25>>, <<45>>, <<50>>}

PopularityPriceLevels == {<<>>, <<0>>, <<1>>, <<2>>, <<3>>, <<4>>}

PopularityArguments ==
    [rating : PopularityRatings, priceLevel : PopularityPriceLevels,
     website : BOOLEAN, phone : BOOLEAN, photos : 0..2, openingHours : 0..1]

\* the value a truthiness test and arithmetic see: undefined and 0 are both falsy
numberOrFalsy(property) == IF property = <<>> THEN 0 ELSE property[1]

InitPopularity ==
    /\ NoTracker
    /\ pc = "rate"
    /\ \E argument \in PopularityArguments :
         /\ history = <<argument>>
         /\ allPOIs = <<NewPOI("serp_1", "Local Attraction",
                               "A notable local business or attraction.", "Other",
                               Origin.lat, Origin.lng,
                               numberOrFalsy(argument.rating),
                               numberOrFalsy(argument.priceLevel),
                               argument.photos, argument.openingHours,
                               argument.website, argument.phone, 0, 0)>>
    /\ routeInput = <<>>
    /\ tripId = ""
    /\ checkpoints = <<>>
    /\ cpIdx = 0
    /\ weather = <<>>
    /\ weatherCache = <<>>
    /\ now = 0
    /\ seed = 0
    /\ draws = 0
    /\ searchPOIs = <<>>
    /\ sourcePOIs = NoSourcePOIs
    /\ srcStatus = AllPending
    /\ mockPOIs = <<>>
    /\ poisNearCheckpoint = <<>>
    /\ scoredPOIs = <<>>
    /\ aiFilteredPOIs = <<>>
    /\ tripPlan = <<>>
    /\ trips = {}

\* const popularityScore = this.calculatePopularityScore(poi)
Rate ==
    /\ pc = "rate"
    /\ scoredPOIs' = <<[popularityScore |-> calculatePopularityScore(allPOIs[1])]>>
    /\ pc' = "rated"
    /\ UNCHANGED <<routeVars, cpIdx, weather, weatherCache, now, seed, draws, searchVars,
                   allPOIs, aiFilteredPOIs, tripPlan, trips, history, trackerVars>>

NextPopularity == Rate

SpecPopularity == InitPopularity /\ [][NextPopularity]_vars

(***************************************************************************)
(* searchPOIsNearLocation on its own, at one place, for preference tags    *)
(* that are category names and for free-text tags                          *)
(***************************************************************************)
SearchTags == {<<>>, <<"Museums">>, <<"food">>, <<"Coffee Shops", "hiking">>}

SearchInputs ==
    {[from |-> Origin, to |-> [Origin EXCEPT !.lng = 21 * TicksPerDegree],
      departureTime |-> 600, preferences |-> p, weather |-> <<>>] : p \in SearchTags}

InitSearch ==
    /\ NoTracker
    /\ pc = "serp"
    /\ \E input \in SearchInputs : routeInput = <<input>>
    /\ tripId = ""
    /\ checkpoints = <<[location |-> [lat |-> Origin.lat, lng |-> Origin.lng,
                                      address |-> "Checkpoint 1"],
                        distanceFromStart |-> 0, estimatedTime |-> 600]>>
    /\ cpIdx = 1
    /\ weather = <<getDefaultWeather>>
    /\ weatherCache = <<>>
    /\ now = 0
    /\ seed \in 0..(NumStreams - 1)
    /\ draws = 0
    /\ searchPOIs = <<>>
    /\ sourcePOIs = NoSourcePOIs
    /\ srcStatus = AllPending
    /\ mockPOIs = <<>>
    /\ poisNearCheckpoint = <<>>
    /\ allPOIs = <<>>
    /\ scoredPOIs = <<>>
    /\ aiFilteredPOIs = <<>>
    /\ tripPlan = <<>>
    /\ trips = {}
    /\ history = <<[checkpoint |-> 1, weather |-> getDefaultWeather,
                    weatherFrom |-> "api", failedSources |-> {}]>>

NextSearch ==
    \/ SearchSerp
    \/ SearchOverpass
    \/ SearchFoursquare
    \/ FinishSearch

SpecSearch == InitSearch /\ [][NextSearch]_vars

(***************************************************************************)
(* Two executions of processRoute on the one database, weather cache and   *)
(* Math.random() stream of the server process.  Every variable that is a   *)
(* local of processRoute holds one value per execution.  An execution      *)
(* gives way to the other at its awaits: after the trip id and the         *)
(* checkpoints, after every turn of the checkpoint loop (here the weather  *)
(* service and the two POI sources are unreachable, so the weather and the *)
(* POIs are generated from the shared random stream), after the filter     *)
(* and after the save.  A plan that was returned may be deleted again.     *)
(***************************************************************************)
Executions == {1, 2}

\* the route each execution is called with
ConcurrentInputs ==
    <<[from |-> Origin, to |-> Origin, departureTime |-> 600,
       preferences |-> <<"Museums">>, weather |-> <<>>],
      [from |-> Origin, to |-> [Origin EXCEPT !.lng = 21 * TicksPerDegree],
       departureTime |-> 600, preferences |-> <<"Parks">>, weather |-> <<>>]>>

ConcurrentFilterTime == [hour |-> 9, month |-> 5]

\* the fetch of wttr.in is rejected
UnreachableWeather == [kind |-> "rejected", data |-> NoWttrData]

InitConcurrent ==
    /\ NoTracker
    /\ pc = [e \in Executions |-> "idle"]
    /\ routeInput = [e \in Executions |-> <<>>]
    /\ tripId = [e \in Executions |-> ""]
    /\ checkpoints = [e \in Executions |-> <<>>]
    /\ cpIdx = [e \in Executions |-> 0]
    /\ weather = <<>>
    /\ weatherCache = <<>>
    /\ now = 0
    /\ seed \in 0..(NumStreams - 1)
    /\ draws = 0
    /\ searchPOIs = <<>>
    /\ sourcePOIs = NoSourcePOIs
    /\ srcStatus = AllPending
    /\ mockPOIs = <<>>
    /\ poisNearCheckpoint = <<>>
    /\ allPOIs = [e \in Executions |-> <<>>]
    /\ scoredPOIs = <<>>
    /\ aiFilteredPOIs = [e \in Executions |-> <<>>]
    /\ tripPlan = [e \in Executions |-> <<>>]
    /\ trips = {}
    /\ history = <<>>

\* const tripId = database.generateId(); const checkpoints = await ...
BeginRoute(e) ==
    /\ pc[e] = "idle"
    /\ routeInput' = [routeInput EXCEPT ![e] = <<ConcurrentInputs[e]>>]
    /\ tripId' = [tripId EXCEPT ![e] = generateId(draws)]
    /\ draws' = draws + 1
    /\ checkpoints' = [checkpoints EXCEPT ![e] = generateRouteCheckpoints(ConcurrentInputs[e])]
    /\ cpIdx' = [cpIdx EXCEPT ![e] = 1]
    /\ pc' = [pc EXCEPT ![e] = "loop"]
    /\ UNCHANGED <<weather, weatherCache, now, seed, searchVars, allPOIs, outputVars,
                   history, trackerVars>>

\* one turn of for (const checkpoint of checkpoints): getWeatherData,
\* searchPOIsNearLocation, the map and allPOIs.push
VisitCheckpoint(e) ==
    /\ pc[e] = "loop"
    /\ LET input == routeInput[e][1]
           location == checkpoints[e][cpIdx[e]].location
           got == getWeatherData(location, UnreachableWeather, weatherCache, now, seed,
                                 draws)
           afterWeather == draws + got.draws
           categories == categoriesOrDefault(input)
           mock == generateEnhancedMockPOIs(location, categories, seed, afterWeather)
           found == slice(removeDuplicatePOIs(mock), MAX_RESULTS)
       IN  /\ weatherCache' = got.cache
           /\ draws' = afterWeather
                          + MockDrawsFrom(mockTargetCategories(categories), 1, seed,
                                          afterWeather)
           /\ allPOIs' = [allPOIs EXCEPT
                            ![e] = @ \o enrichAll(found, got.value, input, cpIdx[e])]
    /\ cpIdx' = [cpIdx EXCEPT ![e] = @ + 1]
    /\ pc' = [pc EXCEPT ![e] = IF cpIdx[e] < Len(checkpoints[e]) THEN "loop" ELSE "filter"]
    /\ UNCHANGED <<routeVars, weather, now, seed, searchVars, outputVars, history, trackerVars>>

\* const aiFilteredPOIs = await aiPOIFilter.filterAndRankPOIs(allPOIs, routeInput)
FilterRoute(e) ==
    /\ pc[e] = "filter"
    /\ aiFilteredPOIs' =
          [aiFilteredPOIs EXCEPT
             ![e] = applyDiversityFiltering(sortByScore(scoreAll(allPOIs[e],
                        buildFilteringCriteria(routeInput[e][1], ConcurrentFilterTime.hour,
                                               ConcurrentFilterTime.month))))]
    /\ pc' = [pc EXCEPT ![e] = "save"]
    /\ UNCHANGED <<routeVars, cpIdx, weather, weatherCache, now, seed, draws, searchVars,
                   allPOIs, scoredPOIs, tripPlan, trips, history, trackerVars>>

\* the TripPlan, await database.saveTripPlan(tripPlan) and the return
SaveRoute(e) ==
    /\ pc[e] = "save"
    /\ LET plan == [id |-> tripId[e], route |-> routeInput[e][1],
                    checkpoints |-> checkpoints[e], pois |-> aiFilteredPOIs[e],
                    createdAt |-> now, updatedAt |-> now]
       IN  /\ tripPlan' = [tripPlan EXCEPT ![e] = <<plan>>]
           /\ trips' = saveTripPlan(trips, plan)
    /\ pc' = [pc EXCEPT ![e] = "done"]
    /\ UNCHANGED <<routeVars, cpIdx, weather, weatherCache, now, seed, draws, searchVars,
                   allPOIs, scoredPOIs, aiFilteredPOIs, history, trackerVars>>

\* database.deleteTripPlan(id) with the id of a plan that was returned
DeleteRoute(e) ==
    /\ pc[e] = "done"
    /\ trips' = deleteTripPlan(trips, tripId[e])
    /\ pc' = [pc EXCEPT ![e] = "deleted"]
    /\ UNCHANGED <<routeVars, cpIdx, weather, weatherCache, now, seed, draws, searchVars,
                   allPOIs, scoredPOIs, aiFilteredPOIs, tripPlan, history, trackerVars>>

Begin == \E e \in Executions : BeginRoute(e)

Visit == \E e \in Executions : VisitCheckpoint(e)

FilterAny == \E e \in Executions : FilterRoute(e)

SaveAny == \E e \in Executions : SaveRoute(e)

DeleteAny == \E e \in Executions : DeleteRoute(e)

NextConcurrent ==
    \/ Begin
    \/ Visit
    \/ FilterAny
    \/ SaveAny
    \/ DeleteAny

SpecConcurrent == InitConcurrent /\ [][NextConcurrent]_vars

(***************************************************************************)
(* calculateDistance on its own, for pairs of places that are identical,   *)
(* a few metres, a degree or two, or half the globe apart.  history holds  *)
(* the pair and the three distances asked for.                             *)
(***************************************************************************)
\* places at and around Origin: 0.00004 and 1 degree north, 0.00012 and 2 degrees east
NearPlaces ==
    {[lat |-> Origin.lat + dLat, lng |-> Origin.lng + dLng] :
        dLat \in {0, 1, TicksPerDegree}, dLng \in {0, 3, 2 * TicksPerDegree}}

\* latitudes 0, 2.5 and 10 degrees
FarLatitudes == {0, 62500, 10 * TicksPerDegree}

\* places on the meridian of Origin and the places opposite them on the globe
FarPlaces ==
    {[lat |-> t, lng |-> Origin.lng] : t \in FarLatitudes}
    \cup {[lat |-> 0 - t, lng |-> Origin.lng - 180 * TicksPerDegree] : t \in FarLatitudes}

DistancePlaces == NearPlaces \cup FarPlaces

InitDistance ==
    /\ NoTracker
    /\ pc = "idle"
    /\ \E a \in DistancePlaces, b \in DistancePlaces :
         routeInput = <<[from |-> a, to |-> b]>>
    /\ tripId = ""
    /\ checkpoints = <<>>
    /\ cpIdx = 0
    /\ weather = <<>>
    /\ weatherCache = <<>>
    /\ now = 0
    /\ seed = 0
    /\ draws = 0
    /\ searchPOIs = <<>>
    /\ sourcePOIs = NoSourcePOIs
    /\ srcStatus = AllPending
    /\ mockPOIs = <<>>
    /\ poisNearCheckpoint = <<>>
    /\ allPOIs = <<>>
    /\ scoredPOIs = <<>>
    /\ aiFilteredPOIs = <<>>
    /\ tripPlan = <<>>
    /\ trips = {}
    /\ history = <<>>

\* a POI at a place, as a search hands it to the map callback of processRoute
PlacePOI(p) ==
    NewPOI("serp_1", "Local Attraction", "", "Museums", p.lat, p.lng,
           45, 2, 1, 1, TRUE, TRUE, 0, 0)

\* DistanceCalculator.calculateDistance(a, b), (b, a) and (a, a), and the private
\* calculateDistance(from, to) of RouteOrchestrator for the same pair; and for a POI
\* at any of the places, calculateDistanceToClosestPoint with a as the origin and b
\* as the destination, and the closestTo the map callback stores on the POI
Measure ==
    /\ pc = "idle"
    /\ LET a == routeInput[1].from
           b == routeInput[1].to
       IN  \E p \in DistancePlaces :
             history' = <<[forward |-> calculateDistance(a.lat, a.lng, b.lat, b.lng),
                           backward |-> calculateDistance(b.lat, b.lng, a.lat, a.lng),
                           self |-> calculateDistance(a.lat, a.lng, a.lat, a.lng),
                           ofOrchestrator |-> RouteOrchestrator_calculateDistance(a, b),
                           poi |-> p,
                           closest |-> calculateDistanceToClosestPoint(
                                           p.lat, p.lng, a.lat, a.lng, b.lat, b.lng),
                           stored |-> enrichPOI(PlacePOI(p), getDefaultWeather,
                                                routeInput[1], 1).closestTo]>>
    /\ pc' = "measured"
    /\ UNCHANGED <<routeVars, cpIdx, weather, weatherCache, now, seed, draws, searchVars,
                   allPOIs, outputVars, trackerVars>>

NextDistance == Measure

SpecDistance == InitDistance /\ [][NextDistance]_vars

(***************************************************************************)
(* searchPOIsNearLocation on its own when the sources answer with records  *)
(* that are complete and with records that lack a name, the coordinates,   *)
(* or the latitude or the longitude of the coordinates                     *)
(***************************************************************************)
SerpRecord(title, gps_coordinates) ==
    [title |-> title, gps_coordinates |-> gps_coordinates, place_id |-> "p4",
     description |-> "", type |-> "Art museum", rating |-> 41, price |-> "",
     hours |-> FALSE, website |-> FALSE, phone |-> FALSE]

\* a complete record; title absent; gps_coordinates absent; gps_coordinates without
\* latitude, without longitude, and empty
SerpRecords ==
    {SerpRecord("City Museum", gpsAt(Origin, 10, 20)),
     SerpRecord("", gpsAt(Origin, 10, 20)),
     SerpRecord("City Museum", <<>>),
     SerpRecord("City Museum", <<[latitude |-> Undefined, longitude |-> Origin.lng]>>),
     SerpRecord("City Museum", <<[latitude |-> Origin.lat, longitude |-> Undefined]>>),
     SerpRecord("City Museum", <<[latitude |-> Undefined, longitude |-> Undefined]>>)}

\* local_results of at most two records
SerpRecordLists ==
    {<<>>} \cup {<<r>> : r \in SerpRecords}
    \cup {<<r, q>> : r \in SerpRecords, q \in SerpRecords}

OverpassElement(lat, lon, center, tags) ==
    [type |-> "node", id |-> 1, lat |-> lat, lon |-> lon, center |-> center, tags |-> tags]

\* a complete node; tags absent; name absent; no position; latitude only; a way whose
\* center has no longitude
OverpassElements ==
    {OverpassElement(Origin.lat + 5, Origin.lng + 5, <<>>,
                     <<[NoTags EXCEPT !.name = "Old Fort", !.historic = "castle"]>>),
     OverpassElement(Origin.lat + 5, Origin.lng + 5, <<>>, <<>>),
     OverpassElement(Origin.lat + 5, Origin.lng + 5, <<>>,
                     <<[NoTags EXCEPT !.historic = "castle"]>>),
     OverpassElement(0, 0, <<>>, <<[NoTags EXCEPT !.name = "Old Fort"]>>),
     OverpassElement(Origin.lat + 5, 0, <<>>, <<[NoTags EXCEPT !.name = "Old Fort"]>>),
     OverpassElement(0, 0, <<[lat |-> Origin.lat + 5, lon |-> 0]>>,
                     <<[NoTags EXCEPT !.name = "Old Fort"]>>)}

\* SerpApi answers with local_results
SerpAnswers ==
    /\ pc = "serp"
    /\ \E results \in SerpRecordLists :
         SourceStep("serp",
                    searchSerpAPI([kind |-> "ok",
                                   data |-> [error |-> FALSE, local_results |-> results]],
                                  seed, draws),
                    SerpDrawsFrom(results, 1), "osm")

\* Overpass answers with at most one element
OverpassAnswers ==
    /\ pc = "osm"
    /\ \E elements \in {<<>>} \cup {<<e>> : e \in OverpassElements} :
         SourceStep("osm",
                    searchOverpassAPI([kind |-> "ok", data |-> [elements |-> elements]],
                                      seed, draws),
                    OSMDrawsFrom(elements, 1), "foursquare")

NextRecords ==
    \/ SerpAnswers
    \/ OverpassAnswers
    \/ SearchFoursquare
    \/ FinishSearch

SpecRecords == InitSearch /\ [][NextRecords]_vars

(***************************************************************************)
(* calculatePreferenceMatch on its own: a POI of one of four categories    *)
(* and every list of at most MaxTags tags, among them tags that are part   *)
(* of a category name in another case, tags that are or contain a concept, *)
(* a tag of the name, a tag of the description, a tag that matches nothing *)
(* and the empty tag.  history holds the score returned.                   *)
(***************************************************************************)
MaxTags == 3

PreferenceTags == {"Museums", "art", "culture", "food", "heritage", "hiking"}

RECURSIVE TagLists(_)
TagLists(n) ==
    IF n = 0 THEN {<<>>}
    ELSE TagLists(n - 1)
         \cup {Append(tags, t) : tags \in {l \in TagLists(n - 1) : Len(l) = n - 1},
                                  t \in PreferenceTags}

PreferencePOIs ==
    {NewPOI("serp_1", "Heritage Museum",
            "Explore fascinating exhibits and learn about local culture.",
            category, Origin.lat, Origin.lng, 45, 2, 1, 1, TRUE, TRUE, 0, 0) :
        category \in {"Museums", "Restaurants", "Art Galleries", "Parks"}}

InitPreference ==
    /\ NoTracker
    /\ pc = "match"
    /\ \E tags \in TagLists(MaxTags) :
         routeInput = <<[from |-> Origin, to |-> Origin, departureTime |-> 600,
                         preferences |-> tags, weather |-> <<>>]>>
    /\ \E poi \in PreferencePOIs : allPOIs = <<poi>>
    /\ tripId = ""
    /\ checkpoints = <<>>
    /\ cpIdx = 0
    /\ weather = <<>>
    /\ weatherCache = <<>>
    /\ now = 0
    /\ seed = 0
    /\ draws = 0
    /\ searchPOIs = <<>>
    /\ sourcePOIs = NoSourcePOIs
    /\ srcStatus = AllPending
    /\ mockPOIs = <<>>
    /\ poisNearCheckpoint = <<>>
    /\ scoredPOIs = <<>>
    /\ aiFilteredPOIs = <<>>
    /\ tripPlan = <<>>
    /\ trips = {}
    /\ history = <<>>

\* const preferenceMatch = this.calculatePreferenceMatch(poi, criteria.userPreferences)
MatchPreferences ==
    /\ pc = "match"
    /\ history' = <<[preferenceMatch |->
                        calculatePreferenceMatch(allPOIs[1], routeInput[1].preferences)]>>
    /\ pc' = "matched"
    /\ UNCHANGED <<routeVars, cpIdx, weather, weatherCache, now, seed, draws, searchVars,
                   allPOIs, outputVars, trackerVars>>

NextPreference == MatchPreferences

SpecPreference == InitPreference /\ [][NextPreference]_vars

(***************************************************************************)
(* LocationTracker and its useGeolocation hook (src/components/            *)
(* location-tracker.tsx, src/unnamed/part_000) in a browser that has       *)
(* navigator.geolocation.  pc is where React is: "mounting" before the     *)
(* first render, "effects" when a render is committed and its effects have *)
(* not run, "idle" when they have, "unmounted" at the end; and, once a     *)
(* click handler has run, "effects_then_render" or "render": React renders *)
(* the updates of a click, after any effects still due, before the next    *)
(* event is handled.  Updates made by an effect or by a position callback  *)
(* wait in updateQueue for a later render, and a click can come first.     *)
(* A click may find the effects of the last render run or not yet run.     *)
(***************************************************************************)
\* the number of watchPosition calls of a run
MaxWatches == 4

pipelineVars ==
    <<routeVars, cpIdx, weather, weatherCache, now, seed, draws, searchVars, allPOIs,
      outputVars, history>>

\* setIsTracking(v), setWatchId(v), setState((prev) => ({ ...prev, loading: v }))
setIsTracking(v) == [field |-> "isTracking", value |-> v]

setWatchId(v) == [field |-> "watchId", value |-> v]

setLoading(v) == [field |-> "loading", value |-> v]

\* the value of a state field after the queued updates: the last one queued for it
afterUpdates(field, current) ==
    LET at == {i \in DOMAIN updateQueue : updateQueue[i].field = field}
    IN  IF at = {} THEN current
        ELSE updateQueue[CHOOSE i \in at : \A j \in at : j <= i].value

\* startWatching(): navigator.geolocation.watchPosition returns the id; setWatchId(id)
startWatching(watches, id) ==
    [watches |-> watches \cup {id},
     updates |-> <<setLoading(TRUE), setWatchId(id)>>,
     next |-> id + 1]

\* stopWatching() of the render that closed over closedWatchId
stopWatching(watches, closedWatchId) ==
    IF closedWatchId # null
      THEN [watches |-> watches \ {closedWatchId}, updates |-> <<setWatchId(null)>>]
    ELSE [watches |-> watches, updates |-> <<>>]

\* the cleanup of the auto-start effect in place: clearWatch(watchId) of its render
cleanup(watches) ==
    IF effect # <<>> /\ effect[1].watchId # null THEN watches \ {effect[1].watchId}
    ELSE watches

InitTracker ==
    /\ pc = "mounting"
    /\ isTracking = FALSE
    /\ watchId = null
    /\ loading = FALSE
    /\ updateQueue = <<>>
    /\ rendered = <<>>
    /\ effect = <<>>
    /\ activeWatches = {}
    /\ nextWatchId = 1
    /\ routeInput = <<>>
    /\ tripId = ""
    /\ checkpoints = <<>>
    /\ cpIdx = 0
    /\ weather = <<>>
    /\ weatherCache = <<>>
    /\ now = 0
    /\ seed = 0
    /\ draws = 0
    /\ searchPOIs = <<>>
    /\ sourcePOIs = NoSourcePOIs
    /\ srcStatus = AllPending
    /\ mockPOIs = <<>>
    /\ poisNearCheckpoint = <<>>
    /\ allPOIs = <<>>
    /\ scoredPOIs = <<>>
    /\ aiFilteredPOIs = <<>>
    /\ tripPlan = <<>>
    /\ trips = {}
    /\ history = <<>>

\* React renders LocationTracker: the queued updates become the state, and the
\* handlers and the effect of this render close over it
Render ==
    /\ pc \in {"mounting", "idle", "render"}
    /\ isTracking' = afterUpdates("isTracking", isTracking)
    /\ watchId' = afterUpdates("watchId", watchId)
    /\ loading' = afterUpdates("loading", loading)
    /\ rendered' = <<[isTracking |-> isTracking', watchId |-> watchId',
                      loading |-> loading']>>
    /\ updateQueue' = <<>>
    /\ pc' = "effects"
    /\ UNCHANGED <<effect, activeWatches, nextWatchId, pipelineVars>>

\* useEffect(() => { if (watch) startWatching(); return cleanup },
\*           [watch, startWatching, watchId]) after a commit: when watch or watchId
\* differ from those of the effect in place, its cleanup runs and then the effect
\* of this render; startWatching never changes (its dependencies are constant)
RunEffects ==
    /\ pc \in {"effects", "effects_then_render"}
    /\ LET watch == rendered[1].isTracking
           started == startWatching(cleanup(activeWatches), nextWatchId)
       IN  IF effect # <<>> /\ effect[1].watch = watch
                /\ effect[1].watchId = rendered[1].watchId
             THEN UNCHANGED <<effect, activeWatches, nextWatchId, updateQueue>>
           ELSE /\ effect' = <<[watch |-> watch, watchId |-> rendered[1].watchId]>>
                /\ IF watch
                     THEN /\ nextWatchId <= MaxWatches
                          /\ activeWatches' = started.watches
                          /\ nextWatchId' = started.next
                          /\ updateQueue' = updateQueue \o started.updates
                   ELSE /\ activeWatches' = cleanup(activeWatches)
                        /\ UNCHANGED <<nextWatchId, updateQueue>>
    /\ pc' = IF pc = "effects" THEN "idle" ELSE "render"
    /\ UNCHANGED <<isTracking, watchId, loading, rendered, pipelineVars>>

\* the Start Tracking button, shown while !isWatching and enabled while !loading:
\* setIsTracking(true); startWatching()
handleStartTracking ==
    /\ pc \in {"effects", "idle"}
    /\ rendered[1].watchId = null
    /\ ~rendered[1].loading
    /\ nextWatchId <= MaxWatches
    /\ LET started == startWatching(activeWatches, nextWatchId)
       IN  /\ activeWatches' = started.watches
           /\ nextWatchId' = started.next
           /\ updateQueue' = updateQueue \o <<setIsTracking(TRUE)>> \o started.updates
    /\ pc' = IF pc = "effects" THEN "effects_then_render" ELSE "render"
    /\ UNCHANGED <<isTracking, watchId, loading, rendered, effect, pipelineVars>>

\* the Stop Tracking button, shown while isWatching: setIsTracking(false);
\* stopWatching()
handleStopTracking ==
    /\ pc \in {"effects", "idle"}
    /\ rendered[1].watchId # null
    /\ LET stopped == stopWatching(activeWatches, rendered[1].watchId)
       IN  /\ activeWatches' = stopped.watches
           /\ updateQueue' = updateQueue \o <<setIsTracking(FALSE)>> \o stopped.updates
    /\ pc' = IF pc = "effects" THEN "effects_then_render" ELSE "render"
    /\ UNCHANGED <<isTracking, watchId, loading, rendered, effect, nextWatchId,
                   pipelineVars>>

\* updatePosition or updateError, called by the browser for a watch it holds:
\* loading becomes false
updatePosition ==
    /\ pc \in {"effects", "idle"}
    /\ activeWatches # {}
    /\ afterUpdates("loading", loading)
    /\ updateQueue' = Append(updateQueue, setLoading(FALSE))
    /\ UNCHANGED <<pc, isTracking, watchId, loading, rendered, effect, activeWatches,
                   nextWatchId, pipelineVars>>

\* LocationTracker leaves the page: the cleanup of the effect in place runs
Unmount ==
    /\ pc = "idle"
    /\ activeWatches' = cleanup(activeWatches)
    /\ pc' = "unmounted"
    /\ UNCHANGED <<isTracking, watchId, loading, updateQueue, rendered, effect,
                   nextWatchId, pipelineVars>>

NextTracker ==
    \/ Render
    \/ RunEffects
    \/ handleStartTracking
    \/ handleStopTracking
    \/ updatePosition
    \/ Unmount

SpecTracker == InitTracker /\ [][NextTracker]_vars

(***************************************************************************)
(* Properties                                                              *)
(***************************************************************************)
Range(xs) == {xs[i] : i \in DOMAIN xs}

\* the lists of the sources that answered, in the order the sources are asked
FromSources ==
    (IF sourcePOIs.serp # <<>> THEN sourcePOIs.serp[1] ELSE <<>>)
    \o (IF sourcePOIs.osm # <<>> THEN sourcePOIs.osm[1] ELSE <<>>)
    \o (IF sourcePOIs.foursquare # <<>> THEN sourcePOIs.foursquare[1] ELSE <<>>)

InSearch == pc \in {"serp", "osm", "foursquare", "merge", "enrich"}

C3_FallbackOnlyWhenEmpty ==
    pc = "enrich" =>
        /\ Len(poisNearCheckpoint[1]) > 0
        /\ (Len(FromSources) = 0) <=> (mockPOIs # <<>>)
        /\ mockPOIs # <<>> => Range(poisNearCheckpoint[1]) \subseteq Range(mockPOIs[1])
        /\ mockPOIs = <<>> => Range(poisNearCheckpoint[1]) \subseteq Range(FromSources)

\* one source failed, the other answered with no place, and the fallback was returned
C3_Witness ==
    /\ pc = "enrich"
    /\ srcStatus.serp = "failed"
    /\ srcStatus.osm = "ok"
    /\ sourcePOIs.osm = << <<>> >>
    /\ mockPOIs # <<>>
    /\ poisNearCheckpoint[1] # <<>>

CategoryCount(pois, category) ==
    Cardinality({i \in DOMAIN pois : pois[i].category = category})

AtMostThreePerCategory(pois) ==
    \A i \in DOMAIN pois : CategoryCount(pois, pois[i].category) <= 3

\* C4: no category appears more than 3 times in the list filterAndRankPOIs
\* returns, nor in the pois of the TripPlan processRoute returns.
C4_AtMostThreePerCategory ==
    /\ pc \in {"save", "done"} => AtMostThreePerCategory(aiFilteredPOIs)
    /\ tripPlan # <<>> => AtMostThreePerCategory(tripPlan[1].pois)

\* a plan whose pool had more than 3 POIs of a category, 3 of which were kept
C4_Witness ==
    /\ pc = "done"
    /\ \E i \in DOMAIN allPOIs :
         /\ CategoryCount(allPOIs, allPOIs[i].category) > 3
         /\ CategoryCount(tripPlan[1].pois, allPOIs[i].category) = 3

\* C5: the list the diversity selector returns, and so TripPlan.pois, has at most
\* 15 entries, whatever the size of the pool.
C5_AtMostFifteen ==
    /\ pc \in {"save", "done"} => Len(aiFilteredPOIs) <= 15
    /\ tripPlan # <<>> => Len(tripPlan[1].pois) <= 15

\* a plan of 15 POIs from a pool of more than 15
C5_Witness ==
    /\ pc = "done"
    /\ Len(allPOIs) > 15
    /\ Len(tripPlan[1].pois) = 15

NonIncreasing(pois) ==
    \A i \in 1..(Len(pois) - 1) : pois[i].aiScore >= pois[i + 1].aiScore

RECURSIVE IsSubsequenceFrom(_, _, _, _)
IsSubsequenceFrom(xs, i, ys, j) ==
    IF i > Len(xs) THEN TRUE
    ELSE IF j > Len(ys) THEN FALSE
    ELSE IF xs[i] = ys[j] THEN IsSubsequenceFrom(xs, i + 1, ys, j + 1)
    ELSE IsSubsequenceFrom(xs, i, ys, j + 1)

IsSubsequence(xs, ys) == IsSubsequenceFrom(xs, 1, ys, 1)

\* C6: the list filterAndRankPOIs returns (TripPlan.pois) is in non-increasing
\* order of aiScore and is a subsequence of the score-sorted pool, which holds
\* every POI of the pool in non-increasing order of aiScore.
C6_OrderedByScore ==
    /\ pc \in {"save", "done"} =>
         /\ NonIncreasing(aiFilteredPOIs)
         /\ IsSubsequence(aiFilteredPOIs, scoredPOIs)
         /\ NonIncreasing(scoredPOIs)
         /\ Len(scoredPOIs) = Len(allPOIs)
         /\ {scoredPOIs[i].id : i \in DOMAIN scoredPOIs} = {allPOIs[i].id : i \in DOMAIN allPOIs}
    /\ tripPlan # <<>> => NonIncreasing(tripPlan[1].pois)

\* a plan whose pool was not in score order: a later POI of the pool scored higher
\* than an earlier one, and the plan has POIs of different scores
C6_Witness ==
    /\ pc = "done"
    /\ Len(tripPlan[1].pois) >= 3
    /\ tripPlan[1].pois[1].aiScore > tripPlan[1].pois[Len(tripPlan[1].pois)].aiScore
    /\ \E i, j \in DOMAIN allPOIs :
         /\ i < j
         /\ \E a, b \in DOMAIN scoredPOIs :
              /\ scoredPOIs[a].id = allPOIs[i].id
              /\ scoredPOIs[b].id = allPOIs[j].id
              /\ scoredPOIs[b].aiScore > scoredPOIs[a].aiScore

\* The positions of the sorted list the greedy walk admits: position i is admitted
\* iff, of the positions before it, fewer than 15 are admitted and fewer than 3 of
\* its category are admitted
RECURSIVE GreedyAdmitted(_, _)
GreedyAdmitted(sorted, i) ==
    IF i = 0 THEN {}
    ELSE LET before == GreedyAdmitted(sorted, i - 1)
         IN  IF /\ Cardinality(before) < 15
                /\ Cardinality({j \in before : sorted[j].category = sorted[i].category}) < 3
               THEN before \cup {i}
               ELSE before

\* the elements of a list at the positions of a set, in the order of the list
AtPositions(xs, positions) ==
    [k \in 1..Cardinality(positions) |->
        xs[CHOOSE p \in positions : Cardinality({q \in positions : q < p}) = k - 1]]

\* C7: the diversity selector is exactly the greedy walk: its output is the
\* POIs of the score-sorted list at the admitted positions, in order; and for 20
\* POIs of one category the output is the first 3 of the sorted list.
C7_ExactGreedyWalk ==
    pc \in {"save", "done"} =>
        /\ aiFilteredPOIs = AtPositions(scoredPOIs, GreedyAdmitted(scoredPOIs, Len(scoredPOIs)))
        /\ (/\ Len(scoredPOIs) = 20
            /\ \A i \in DOMAIN scoredPOIs : scoredPOIs[i].category = scoredPOIs[1].category)
           => aiFilteredPOIs = SubSeq(scoredPOIs, 1, 3)

\* 20 POIs of one category and of different scores gave the first 3 of the sorted list
C7_Witness ==
    /\ pc = "save"
    /\ Len(scoredPOIs) = 20
    /\ \A i \in DOMAIN scoredPOIs : scoredPOIs[i].category = scoredPOIs[1].category
    /\ scoredPOIs[1].aiScore > scoredPOIs[20].aiScore
    /\ aiFilteredPOIs = SubSeq(scoredPOIs, 1, 3)

\* a name in lower case and without its blanks
normalizedName(name) == SelectSeq(toLowerCase(Chars(name)), LAMBDA c : c # " ")

SameBucket(p, q) ==
    /\ toFixed4(p.location.lat) = toFixed4(q.location.lat)
    /\ toFixed4(p.location.lng) = toFixed4(q.location.lng)

\* C8: of two POI records of the pool whose names differ only in letter case or
\* blanks and whose coordinates round to the same 4-decimal latitude and
\* longitude, the list searchPOIsNearLocation returns holds exactly one.
C8_OneOfNameVariants ==
    pc = "enrich" =>
        \A i, j \in DOMAIN searchPOIs :
            (/\ i < j
             /\ normalizedName(searchPOIs[i].name) = normalizedName(searchPOIs[j].name)
             /\ SameBucket(searchPOIs[i], searchPOIs[j]))
            => Cardinality({searchPOIs[i], searchPOIs[j]} \cap Range(poisNearCheckpoint[1])) = 1

KeyOf(poi) == <<poi.name, toFixed4(poi.location.lat), toFixed4(poi.location.lng)>>

\* the position of the first POI of the pool with the key
FirstPosition(pool, key) ==
    CHOOSE p \in DOMAIN pool :
        /\ KeyOf(pool[p]) = key
        /\ \A q \in 1..(p - 1) : KeyOf(pool[q]) # key

\* C9: in the list searchPOIsNearLocation returns no two POIs share the key
\* (name, latitude to 4 decimals, longitude to 4 decimals); each is the first POI
\* with its key in the pool, the pool being the lists of SerpApi, OpenStreetMap and
\* Foursquare in this order; they are in the order of the pool; and they are the
\* first MAX_RESULTS of the keys of the pool.
C9_FirstOccurrenceWins ==
    pc = "enrich" =>
        LET returned == poisNearCheckpoint[1]
            position(i) == FirstPosition(searchPOIs, KeyOf(returned[i]))
            keys == {KeyOf(searchPOIs[p]) : p \in DOMAIN searchPOIs}
        IN  /\ mockPOIs = <<>> => searchPOIs = FromSources
            /\ \A i, j \in DOMAIN returned : i # j => KeyOf(returned[i]) # KeyOf(returned[j])
            /\ \A i \in DOMAIN returned :
                 /\ KeyOf(returned[i]) \in keys
                 /\ returned[i] = searchPOIs[position(i)]
            /\ \A i \in 1..(Len(returned) - 1) : position(i) < position(i + 1)
            /\ Len(returned) = Min(20, Cardinality(keys))
            /\ \A key \in keys \ {KeyOf(returned[i]) : i \in DOMAIN returned} :
                 \A i \in DOMAIN returned : position(i) < FirstPosition(searchPOIs, key)

\* SerpApi and OpenStreetMap both returned the cafe; the SerpApi record was kept
\* and the OpenStreetMap record dropped
C9_Witness ==
    /\ pc = "enrich"
    /\ srcStatus.serp = "ok"
    /\ srcStatus.osm = "ok"
    /\ \E s \in Range(sourcePOIs.serp[1]), o \in Range(sourcePOIs.osm[1]) :
         /\ KeyOf(s) = KeyOf(o)
         /\ s \in Range(poisNearCheckpoint[1])
         /\ o \notin Range(poisNearCheckpoint[1])

WeatherCallReturns == pc = "calls" /\ cpIdx' = cpIdx + 1

\* C11: in any sequence of getWeatherData calls and whatever time passes between
\* them, a call returns the cached snapshot of the place's 2-decimal bucket, without
\* asking wttr.in and leaving the cache alone, exactly when the cache holds an entry
\* for that bucket that is younger than 30 minutes; with no entry, or an entry of 30
\* minutes or more, wttr.in is asked before anything is returned.
C11_CachedOnlyWhileYoung ==
    [][WeatherCallReturns =>
         LET location == history'[1].location
             cached == cacheGet(weatherCache, cacheKey(location))
         IN  IF cached # <<>> /\ now - cached[1].timestamp < 30
               THEN /\ history'[1].weatherFrom = "cache"
                    /\ history'[1].fetch = "none"
                    /\ weather' = <<cached[1].data>>
                    /\ weatherCache' = weatherCache
             ELSE /\ history'[1].weatherFrom \in {"api", "mock"}
                  /\ history'[1].fetch \in FetchFailures \cup {"ok"}]_vars

\* an entry written at one place is found exactly 30 minutes later by a call for a
\* different place of the same bucket, and wttr.in is asked again
C11_Witness ==
    /\ pc = "calls"
    /\ history # <<>>
    /\ history[1].age = 30
    /\ history[1].location # Origin
    /\ cacheKey(history[1].location) = cacheKey(Origin)
    /\ history[1].weatherFrom = "api"
    /\ weatherCache[cacheKey(Origin)].timestamp = history[1].at

\* the snapshot is a row of the fallback table: its condition and icon, a temperature
\* of its range, humidity of 40 to 80 and wind of 5 to 25
FromFallbackTable(snapshot) ==
    /\ \E row \in { <<"Clear", "sun", 18, 28>>,
                    <<"Partly Cloudy", "sun behind cloud", 15, 25>>,
                    <<"Cloudy", "cloud", 12, 22>>,
                    <<"Light Rain", "sun behind rain cloud", 10, 20>>,
                    <<"Sunny", "sun with face", 20, 30>> } :
         /\ snapshot.condition = row[1]
         /\ snapshot.icon = row[2]
         /\ snapshot.temperature \in row[3]..row[4]
    /\ snapshot.humidity \in 40..80
    /\ snapshot.windSpeed \in 5..25

\* C12: getWeatherData never raises to its caller and always returns a snapshot,
\* whatever the fetch did; when the fetch was rejected, answered with a non-OK status
\* or with a body that cannot be parsed, the snapshot returned is one made from the
\* fallback table.
C12_AlwaysASnapshot ==
    /\ pc # "failed"
    /\ (pc = "calls" /\ history # <<>>) =>
         /\ weather = <<history[1].weather>>
         /\ DOMAIN history[1].weather =
              {"temperature", "condition", "humidity", "windSpeed", "icon"}
         /\ history[1].fetch \in FetchFailures =>
              /\ history[1].weatherFrom = "mock"
              /\ FromFallbackTable(history[1].weather)

\* each of the three failures has happened in a run, the last one behind an expired
\* cache entry
C12_Witness ==
    /\ pc = "calls"
    /\ cpIdx = MaxCalls
    /\ history[1].fetch = "bad_json"
    /\ history[1].age >= 30
    /\ history[1].weatherFrom = "mock"

C14_RejectedBeforeAnyStage ==
    (/\ routeInput # <<>>
     /\ pc # "received"
     /\ \E field \in {"from", "to", "departureTime"} : field \notin DOMAIN routeInput[1])
    => /\ pc = "status400"
       /\ tripId = ""
       /\ draws = 0
       /\ checkpoints = <<>>
       /\ cpIdx = 0
       /\ history = <<>>
       /\ weather = <<>>
       /\ weatherCache = <<>>
       /\ srcStatus = AllPending
       /\ sourcePOIs = NoSourcePOIs
       /\ searchPOIs = <<>>
       /\ mockPOIs = <<>>
       /\ allPOIs = <<>>
       /\ scoredPOIs = <<>>
       /\ tripPlan = <<>>
       /\ trips = {}

\* a body that lacks nothing but the departure time has been answered with 400
C14_Witness ==
    /\ pc = "status400"
    /\ DOMAIN routeInput[1] = {"from", "to", "preferences", "weather"}

\* the plan in the store is the whole plan: every checkpoint was enriched, every POI
\* found was scored, and the plan holds the diversity selection of the sorted scores
StoredPlanIsComplete ==
    /\ trips = {tripPlan[1]}
    /\ tripPlan[1].checkpoints = checkpoints
    /\ Len(checkpoints) >= 2
    /\ cpIdx = Len(checkpoints) + 1
    /\ Len(history) = Len(checkpoints)
    /\ \A c \in 1..Len(history) : history[c].checkpoint = c
    /\ \A i \in 1..Len(allPOIs) : allPOIs[i].weather # <<>>
    /\ Len(scoredPOIs) = Len(allPOIs)
    /\ NonIncreasing(scoredPOIs)
    /\ aiFilteredPOIs = applyDiversityFiltering(scoredPOIs)
    /\ tripPlan[1].pois = aiFilteredPOIs

\* C15: no partial TripPlan is ever persisted.  The Trip Store changes in at most one
\* step of an execution, the save at the end of processRoute; what it then holds is
\* the complete plan; and while processRoute has not reached the save, or has failed
\* before it, the set of stored trips is the one it started with.
C15_NoPartialPlanStored ==
    /\ [](IF pc \in {"done", "status200"} THEN StoredPlanIsComplete ELSE trips = {})
    /\ [][trips' # trips => pc = "save" /\ pc' = "done" /\ trips = {}]_vars

\* processRoute failed in the filter, after both checkpoints had been enriched with
\* POIs; the handler answered 500 and the store is as it was
C15_Witness ==
    /\ pc = "status500"
    /\ Len(history) = Len(checkpoints)
    /\ allPOIs # <<>>
    /\ weatherCache # <<>>
    /\ trips = {}

(***************************************************************************)
(* The checkpoint planner                                                  *)
(***************************************************************************)
\* the great-circle length of the planned route, metres
RouteLength ==
    RouteOrchestrator_calculateDistance(routeInput[1].from, routeInput[1].to)

SubScores ==
    {"weatherSuitability", "preferenceMatch", "timeRelevance", "seasonalRelevance",
     "popularityScore", "accessibilityScore"}

\* C18: the six weights are 0.25, 0.30, 0.15, 0.10, 0.15 and 0.05 and sum to 1.0;
\* each of the six sub-scores of a scored POI lies in [0,1], whatever the POI, the
\* weather, the preferences, the time of day and the season; and its aiScore lies
\* in [0,1].
C18_ScoresWithinUnitInterval ==
    /\ weights = [weatherSuitability |-> 25, preferenceMatch |-> 30, timeRelevance |-> 15,
                  seasonalRelevance |-> 10, popularityScore |-> 15,
                  accessibilityScore |-> 5]
    /\ weights.weatherSuitability + weights.preferenceMatch + weights.timeRelevance
       + weights.seasonalRelevance + weights.popularityScore + weights.accessibilityScore
       = 100
    /\ \A i \in 1..Len(scoredPOIs) :
         /\ DOMAIN scoredPOIs[i].scoreBreakdown = SubScores
         /\ \A sub \in SubScores :
              /\ scoredPOIs[i].scoreBreakdown[sub] >= 0
              /\ scoredPOIs[i].scoreBreakdown[sub] <= 1000000
         /\ scoredPOIs[i].aiScore >= 0
         /\ scoredPOIs[i].aiScore <= 100

\* both ends of the interval are met in one scored POI: a park with every detail in
\* fair summer weather scores 1.0 for weather, season and popularity, and 0 for the
\* preference it does not match
C18_Witness ==
    /\ pc = "scored"
    /\ scoredPOIs[1].category = "Parks"
    /\ scoredPOIs[1].scoreBreakdown.weatherSuitability = 1000000
    /\ scoredPOIs[1].scoreBreakdown.seasonalRelevance = 1000000
    /\ scoredPOIs[1].scoreBreakdown.popularityScore = 1000000
    /\ scoredPOIs[1].scoreBreakdown.preferenceMatch = 0
    /\ scoredPOIs[1].aiScore \in 1..99

\* the popularity formula of the specification, in millionths, for a POI as written
PopularityFormula(argument) ==
    LET ratingTerm == IF argument.rating = <<>> THEN 300000
                      ELSE (argument.rating[1] * 600000) \div 50
        priceTerm == IF argument.priceLevel = <<>> THEN 140000
                     ELSE IF argument.priceLevel[1] \in {2, 3} THEN 200000
                     ELSE 140000
        bonus == (IF argument.website THEN 300000 ELSE 0)
                 + (IF argument.phone THEN 300000 ELSE 0)
                 + (IF argument.photos > 1 THEN 200000 ELSE 0)
                 + (IF argument.openingHours > 0 THEN 200000 ELSE 0)
        bonusTerm == (IF bonus > 1000000 THEN 1000000 ELSE bonus) \div 5
        total == ratingTerm + priceTerm + bonusTerm
    IN  IF total > 1000000 THEN 1000000 ELSE total

\* C19: calculatePopularityScore equals min(1, 0.6 * rating/5 (0.3 when the rating is
\* absent) + 0.2 * (1.0 for price level 2 or 3, else 0.7; 0.14 when absent)
\* + 0.2 * min(1, 0.3 website + 0.3 phone + 0.2 more than one photo + 0.2 opening
\* hours)) for every rating in 0..5 and price level in 0..4; a POI with rating 5,
\* price level 2, website, phone, 2 photos and opening hours scores exactly 1.0.
C19_PopularityFormula ==
    pc = "rated" =>
      /\ scoredPOIs[1].popularityScore = PopularityFormula(history[1])
      /\ history[1] = [rating |-> <<50>>, priceLevel |-> <<2>>, website |-> TRUE,
                       phone |-> TRUE, photos |-> 2, openingHours |-> 1]
           => scoredPOIs[1].popularityScore = 1000000

(***************************************************************************)
(* Categories                                                              *)
(***************************************************************************)
\* C20: every POI searchPOIsNearLocation returns has a category of the taxonomy of 13
\* values, whichever source or the fallback generator made it and whatever
\* preference tags were given; a SerpApi type and a set of OSM tags without a
\* mapping give "Other".
C20_CategoryInTaxonomy ==
    /\ Cardinality(Taxonomy) = 13
    /\ mapSerpTypeToCategory("Gas station") = "Other"
    /\ mapSerpTypeToCategory("") = "Other"
    /\ mapOSMTagsToCategory(NoTags) = "Other"
    /\ poisNearCheckpoint # <<>> =>
         \A i \in 1..Len(poisNearCheckpoint[1]) :
            poisNearCheckpoint[1][i].category \in Taxonomy

\* the ids under which the store holds a plan before or after a step
StoredIds(tripsMap) == {t.id : t \in tripsMap}

\* C21: two processRoute executions with different trip ids do not interfere under
\* any interleaving: while an execution has returned and its plan was not deleted,
\* getTripPlan of its id gives the plan that execution produced; after both have
\* returned getAllTrips holds both plans; and a step changes the entry of an id
\* only when it is the save or the delete of the execution that has this id.
C21_NoInterference ==
    /\ [](/\ \A e \in Executions :
               /\ pc[e] = "done" => getTripPlan(trips, tripId[e]) = tripPlan[e]
               /\ pc[e] = "deleted" => getTripPlan(trips, tripId[e]) = <<>>
          /\ (\A e \in Executions : pc[e] = "done")
               => /\ tripId[1] # tripId[2]
                  /\ {tripPlan[e][1] : e \in Executions} \subseteq getAllTrips(trips)
                  /\ Cardinality(getAllTrips(trips)) = 2)
    /\ [][\A id \in StoredIds(trips) \cup StoredIds(trips') :
              getTripPlan(trips', id) # getTripPlan(trips, id)
                => \E e \in Executions :
                     /\ tripId[e] = id
                     /\ \/ pc[e] = "save" /\ pc'[e] = "done"
                        \/ pc[e] = "done" /\ pc'[e] = "deleted"]_vars

\* one execution saved and deleted its plan while the other's plan, with the POIs
\* it selected, is still the one getTripPlan gives
C21_Witness ==
    /\ pc[1] = "deleted"
    /\ pc[2] = "done"
    /\ tripId[1] # tripId[2]
    /\ getTripPlan(trips, tripId[2]) = tripPlan[2]
    /\ Len(tripPlan[2][1].pois) > 0
    /\ tripPlan[1][1].pois # tripPlan[2][1].pois

\* x === y for two numbers: NaN equals nothing, itself included
StrictEquals(x, y) == x # NotANumber /\ y # NotANumber /\ x = y

\* C22: for all coordinate pairs a and b, calculateDistance(a, b) equals
\* calculateDistance(b, a), calculateDistance(a, a) equals 0, and the result is
\* never negative (it is a number that is at least 0); the same for the
\* calculateDistance of RouteOrchestrator.
C22_DistanceIsSymmetric ==
    pc = "measured" =>
        /\ StrictEquals(history[1].forward, history[1].backward)
        /\ StrictEquals(history[1].self, 0)
        /\ history[1].forward # NotANumber /\ history[1].forward >= 0
        /\ StrictEquals(history[1].ofOrchestrator, history[1].forward)

\* sensitivity * suitability(w) + (1 - sensitivity) * 0.8 for the category and the
\* snapshot w, in millionths
WeatherBlend(category, w) ==
    ((categoryWeatherSensitivity(category) * getWeatherSuitabilityScore(w)) \div 10)
      + (10 - categoryWeatherSensitivity(category)) * 80000

\* C23: the weatherSuitability sub-score of a scored POI that has a weather snapshot
\* attached is the blend of its category's sensitivity with the suitability of that
\* snapshot, the one attached to it at its checkpoint, and 0.7 when it has none:
\* it is a function of the POI's own weather and category only.
C23_ScoredOnOwnWeather ==
    \A i \in 1..Len(scoredPOIs) :
        scoredPOIs[i].scoreBreakdown.weatherSuitability
          = IF scoredPOIs[i].weather = <<>> THEN 700000
            ELSE WeatherBlend(scoredPOIs[i].category, scoredPOIs[i].weather[1])

\* C24: a source record that lacks a name, a latitude or a longitude is never
\* admitted to the POI pool: the caller of searchPOIsNearLocation sees no error, and
\* every POI of the pool that reaches deduplication has a name and two numeric
\* coordinates.
C24_IncompleteRecordsDiscarded ==
    /\ pc # "failed"
    /\ \A j \in 1..Len(searchPOIs) :
         /\ searchPOIs[j].name # ""
         /\ searchPOIs[j].location.lat # Undefined
         /\ searchPOIs[j].location.lng # Undefined

\* what one tag contributes by the specification, in tenths
TagContribution(poi, tag) ==
    LET lowerTag == toLowerCase(Chars(tag))
        concepts == {semanticMappings[i] : i \in 1..Len(semanticMappings)}
    IN  IF includes(toLowerCase(Chars(poi.category)), lowerTag) THEN 10
        ELSE IF \E c \in concepts :
                  /\ includes(lowerTag, Chars(c[1])) \/ includes(Chars(c[1]), lowerTag)
                  /\ poi.category \in c[2]
          THEN 7
        ELSE IF includes(toLowerCase(Chars(poi.name)), lowerTag)
                \/ includes(toLowerCase(Chars(poi.description)), lowerTag)
          THEN 5
        ELSE 0

\* the sum of the contributions of the tags at the positions of a set
RECURSIVE ContributionSum(_, _, _)
ContributionSum(poi, tags, positions) ==
    IF positions = {} THEN 0
    ELSE LET i == CHOOSE j \in positions : TRUE
         IN  TagContribution(poi, tags[i]) + ContributionSum(poi, tags, positions \ {i})

\* the rearrangements of a list
Rearrangements(tags) ==
    {[i \in DOMAIN tags |-> tags[f[i]]] :
        f \in {g \in [DOMAIN tags -> DOMAIN tags] : \A i, j \in DOMAIN tags :
                                                       g[i] = g[j] => i = j}}

PoolPosition(id) == CHOOSE p \in 1..Len(allPOIs) : allPOIs[p].id = id

\* C26: ranking is stable: of two POIs of equal aiScore that are both in the output
\* of filterAndRankPOIs, the one that stood earlier in the input pool stands earlier
\* in the output.
C26_StableRanking ==
    pc = "save" =>
        \A i, j \in 1..Len(aiFilteredPOIs) :
            (i < j /\ aiFilteredPOIs[i].aiScore = aiFilteredPOIs[j].aiScore)
                => PoolPosition(aiFilteredPOIs[i].id) < PoolPosition(aiFilteredPOIs[j].id)

\* the filter has ranked a pool in which two admitted POIs tie and a POI that stood
\* behind both of them in the pool was moved in front of them by its higher score
C26_Witness ==
    /\ pc = "save"
    /\ \E k, i, j \in 1..Len(aiFilteredPOIs) :
         /\ k < i /\ i < j
         /\ aiFilteredPOIs[i].aiScore = aiFilteredPOIs[j].aiScore
         /\ aiFilteredPOIs[k].aiScore > aiFilteredPOIs[i].aiScore
         /\ PoolPosition(aiFilteredPOIs[k].id) > PoolPosition(aiFilteredPOIs[j].id)

\* C27: calculateDistanceToClosestPoint returns the smaller of the distances from the
\* POI to the origin and to the destination, with the endpoint that attains it;
\* when the two distances are equal it returns "origin"; and the closestTo stored on
\* the POI is the one returned.
C27_ClosestEndpoint ==
    pc = "measured" =>
        LET h == history[1]
            toOrigin == calculateDistance(h.poi.lat, h.poi.lng,
                                          routeInput[1].from.lat, routeInput[1].from.lng)
            toDestination == calculateDistance(h.poi.lat, h.poi.lng,
                                               routeInput[1].to.lat, routeInput[1].to.lng)
        IN  /\ h.closest.distance # NotANumber
            /\ toOrigin # NotANumber => h.closest.distance <= toOrigin
            /\ toDestination # NotANumber => h.closest.distance <= toDestination
            /\ h.closest.closestTo = "origin" => StrictEquals(h.closest.distance, toOrigin)
            /\ h.closest.closestTo = "destination"
                   => StrictEquals(h.closest.distance, toDestination)
            /\ StrictEquals(toOrigin, toDestination) => h.closest.closestTo = "origin"
            /\ h.stored = h.closest.closestTo

\* two POIs that denote the same place: the same id, or the same name at
\* coordinates equal to four decimals
SamePlace(p, q) == p.id = q.id \/ DedupKey(p) = DedupKey(q)

\* C28: in the TripPlan returned by processRoute no two entries of pois denote the
\* same place, also when the searches of two checkpoints return the same place.
C28_NoPlaceTwice ==
    pc = "done" =>
        \A i, j \in 1..Len(tripPlan[1].pois) :
            i # j => ~SamePlace(tripPlan[1].pois[i], tripPlan[1].pois[j])

\* C29: getWeatherData writes the weather cache only when wttr.in answered with a
\* report: a call whose fetch failed returns a made-up snapshot and leaves every
\* cache entry as it was, a call that changes the cache has fetched a report and
\* changes the entry of its own bucket only, to the report it returns, and the call
\* that follows a failed call for the same bucket asks wttr.in again.
C29_FallbackNeverCached ==
    [][WeatherCallReturns =>
         LET call == history'[1]
             key == cacheKey(call.location)
         IN  /\ call.fetch \in FetchFailures =>
                  call.weatherFrom = "mock" /\ weatherCache' = weatherCache
             /\ call.weatherFrom = "mock" => weatherCache' = weatherCache
             /\ weatherCache' # weatherCache =>
                  /\ call.fetch = "ok"
                  /\ DOMAIN weatherCache' = DOMAIN weatherCache \cup {key}
                  /\ \A c \in DOMAIN weatherCache \ {key} :
                       weatherCache'[c] = weatherCache[c]
                  /\ weatherCache'[key] = [data |-> call.weather, timestamp |-> now]
             /\ (/\ history # <<>>
                 /\ history[1].fetch \in FetchFailures
                 /\ cacheKey(history[1].location) = key) => call.fetch # "none"]_vars

\* a call found an entry of 30 minutes or more for its bucket, wttr.in answered with
\* an error status, and the old entry is still in the cache
C29_Witness ==
    /\ pc = "calls"
    /\ history # <<>>
    /\ history[1].fetch = "http_error"
    /\ history[1].weatherFrom = "mock"
    /\ history[1].age >= 30
    /\ cacheKey(history[1].location) \in DOMAIN weatherCache
    /\ weatherCache[cacheKey(history[1].location)].timestamp
           = history[1].at - history[1].age
    /\ weatherCache[cacheKey(history[1].location)].data # history[1].weather


\* C30: in useGeolocation as LocationTracker drives it, whatever the sequence of
\* starts, stops and renders: when tracking has been stopped and the hook reports
\* isWatching = false with nothing left to render, and when the component has been
\* unmounted, no watch the hook registered with watchPosition is still active.
C30_NoWatchLeftBehind ==
    /\ pc = "unmounted" => activeWatches = {}
    /\ (/\ pc = "idle"
        /\ updateQueue = <<>>
        /\ ~isTracking
        /\ rendered[1].watchId = null) => activeWatches = {}

=============================================================================
